---------------------------- MODULE Spec2Model ----------------------------
(***************************************************************************)
(* A model of the negotiation core of DCAP (negotiation_agents):           *)
(*   - model.rs       RFQ, Quote and the Negotiation state machine         *)
(*   - trust.rs       TrustSystem: the reputation cache and the trust tier *)
(*   - trust.rs       TrustSystem: trust tokens (generate_jwt/validate_jwt)*)
(*   - settlement.rs  SettlementService: payment dispatch, escrow, webhooks*)
(*   - agent.rs       BuyerAgent: the orchestration of the three           *)
(*   - agent.rs       SellerAgent: quoting and counter-offer evaluation    *)
(*                                                                         *)
(* Conventions.  Option<T> is a set: None is {} and Some(x) is {x}.        *)
(* Result<()> is a string: "Ok", or the name of the NegotiationError       *)
(* variant returned (error.rs:7-53).  f64 prices are integers (the code    *)
(* only copies, compares and subtracts them).  DateTime<Utc> is an integer *)
(* number of minutes; Utc::now() is the variable now.  (SpecQuote alone    *)
(* counts the clock in seconds, the unit of Quote.ttl_seconds.)            *)
(* Uuid::new_v4() is a choice of an identifier not in use.  Fields of a    *)
(* struct that no modelled operation reads (rfq_id, product_id, metadata)  *)
(* are left out of its record.                                             *)
(***************************************************************************)
EXTENDS Integers, Sequences, FiniteSets, TLC

VARIABLES
    now,                 \* Utc::now(), in minutes
    rfq,                 \* the RFQ under validation / the RFQ a Negotiation was built from
    issued_quote,        \* Option<Quote>: the model::Quote a seller built with Quote::new
    negotiation,         \* one model::Negotiation object, driven through its methods
    active_negotiations, \* BuyerAgent.active_negotiations : HashMap<TransactionId, Negotiation>
    payments,            \* per negotiation id, the number of create_payment invocations
    settles,             \* per negotiation id, the number of settle() calls that returned Ok
    reputation_cache,    \* TrustSystem.reputation_cache : HashMap<AgentId, ReputationScore>
    holds,               \* per hold id, the EscrowHold process_escrow_payment built (the
                         \* service logs its id and drops the value: it has no store)
    token,               \* Option<String>: a token generate_jwt returned, held by its caller
    config,              \* SettlementService.config : the rails whose configuration value
                         \* (stripe_secret_key, solana_rpc_url, escrow_service_url) is Some
    recorded,            \* the number of transactions recorded through the transaction hooks
    tasks,               \* per MCP connection task, the tool call it serves and how far it is
    lock,                \* the holders (task, mode) of the lock of
                         \* NegotiationMcpServer.trust_system : Arc<RwLock<TrustSystem>>
    call                 \* the last completed call: its name, arguments and result

vars == <<now, rfq, issued_quote, negotiation, active_negotiations, payments, settles,
          reputation_cache, holds, token, config, recorded, tasks, lock, call>>

objectVars == <<rfq, issued_quote, negotiation>>
agentVars == <<active_negotiations, payments, settles>>
serviceVars == <<holds, token, config>>
sharedVars == <<recorded, tasks, lock>>

-----------------------------------------------------------------------------
(* Bounds and input sets *)

MaxNow == 60
MaxNegotiations == 1

TickSteps == {15, 30}

None == {}
Some(x) == {x}
IsSome(o) == o # {}
Unwrap(o) == CHOOSE x \in o : TRUE

BuyerId == "buyer"
SellerId == "seller"
Agents == {BuyerId, SellerId}

QuoteIds == {"q1", "q2"}
BidSet == {80, 100}
PriceSet == {-10, 0, 90, 100, 110}
Quotes == [id : QuoteIds, price : {90, 110}]

NoCall == [op |-> "none", ret |-> "Ok"]

I32Max == 2147483647
I32Min == -I32Max - 1

\* score_change inputs: moderate ones, and the extremes of i32
DeltaSet == {-200, -25, 25, 50, 200}
DeltaSetI32 == {I32Min, -25, 25, 50, I32Max}
DeltaSetTier == {-200, -1, 1, 24, 49}

\* the build profile decides what an overflowing i32 addition does
Builds == {"debug", "release"}

-----------------------------------------------------------------------------
(* model.rs: Negotiation *)

\* Negotiation::new(rfq, seller_id) at time t
Negotiation_new(r, seller_id, t) ==
    [quote_id    |-> None,
     buyer_id    |-> r.buyer_id,
     seller_id   |-> seller_id,
     quantity    |-> r.quantity,
     opening_bid |-> r.max_price,
     close_price |-> None,
     delta       |-> None,
     status      |-> "Pending",
     messages    |-> <<>>,
     created_at  |-> t,
     updated_at  |-> t]

\* (variant: a quote may be replaced while the negotiation is still Quoted)
add_quote_replaces(n) == n.status \in {"Pending", "Quoted"}

\* the guard of add_quote: no quote reference is held yet
add_quote_allowed(n) == ~IsSome(n.quote_id)

\* (variant: the quote is attached and the status left as it is)
add_quote_keeps_status(n, quote, t) ==
    IF ~add_quote_allowed(n)
    THEN [ret |-> "Negotiation", neg |-> n]
    ELSE [ret |-> "Ok",
          neg |-> [n EXCEPT !.quote_id = Some(quote.id), !.updated_at = t]]

\* Negotiation::add_quote(&mut self, quote) at time t: the result and the object after it
add_quote(n, quote, t) ==
    IF ~add_quote_allowed(n)
    THEN [ret |-> "Negotiation", neg |-> n]
    ELSE [ret |-> "Ok",
          neg |-> [n EXCEPT !.quote_id = Some(quote.id),
                            !.status = "Quoted",
                            !.updated_at = t]]

\* (variant: a Pending negotiation counts as open too)
open_or_pending(n) == n.status \in {"Pending", "Quoted", "Negotiating"}

\* (variant: only Pending and Rejected are refused)
open_unless_pending_or_rejected(n) == n.status \notin {"Pending", "Rejected"}

\* (variant: an Accepted negotiation may be accepted again)
open_or_accepted(n) == n.status \in {"Quoted", "Negotiating", "Accepted"}

\* the guard shared by accept and reject: Quoted or Negotiating
open_status(n) == n.status = "Quoted" \/ n.status = "Negotiating"

\* (variant: the operands of the subtraction swapped)
delta_swapped(n, final_price) == n.opening_bid - final_price

\* the delta recorded by accept
accept_delta(n, final_price) == final_price - n.opening_bid

\* Negotiation::accept(&mut self, final_price) at time t
accept(n, final_price, t) ==
    IF ~open_status(n)
    THEN [ret |-> "Negotiation", neg |-> n]
    ELSE [ret |-> "Ok",
          neg |-> [n EXCEPT !.close_price = Some(final_price),
                            !.delta = Some(accept_delta(n, final_price)),
                            !.status = "Accepted",
                            !.updated_at = t]]

\* Negotiation::reject(&mut self) at time t
reject(n, t) ==
    IF ~open_status(n)
    THEN [ret |-> "Negotiation", neg |-> n]
    ELSE [ret |-> "Ok",
          neg |-> [n EXCEPT !.status = "Rejected", !.updated_at = t]]

\* the guard of settle
settle_allowed(n) == n.status = "Accepted"

\* (variant: a refused settle still stamps the negotiation)
settle_stamps_on_error(n, t) ==
    IF ~settle_allowed(n)
    THEN [ret |-> "Negotiation", neg |-> [n EXCEPT !.updated_at = t]]
    ELSE [ret |-> "Ok",
          neg |-> [n EXCEPT !.status = "Settled", !.updated_at = t]]

\* Negotiation::settle(&mut self) at time t
settle(n, t) ==
    IF ~settle_allowed(n)
    THEN [ret |-> "Negotiation", neg |-> n]
    ELSE [ret |-> "Ok",
          neg |-> [n EXCEPT !.status = "Settled", !.updated_at = t]]

\* (variant: the record takes the opening bid for the close price)
to_record_opening_as_close(n) ==
    IF IsSome(n.close_price) /\ IsSome(n.delta)
    THEN Some([buyer_id |-> n.buyer_id, seller_id |-> n.seller_id,
               opening_bid |-> n.opening_bid, close_price |-> n.opening_bid,
               delta |-> Unwrap(n.delta), timestamp |-> n.created_at,
               duration_seconds |-> (n.updated_at - n.created_at) * 60,
               message_count |-> Len(n.messages)])
    ELSE None

\* Negotiation::to_record(&self): Option<NegotiationRecord>
to_record(n) ==
    IF IsSome(n.close_price) /\ IsSome(n.delta)
    THEN Some([buyer_id |-> n.buyer_id, seller_id |-> n.seller_id,
               opening_bid |-> n.opening_bid, close_price |-> Unwrap(n.close_price),
               delta |-> Unwrap(n.delta), timestamp |-> n.created_at,
               duration_seconds |-> (n.updated_at - n.created_at) * 60,
               message_count |-> Len(n.messages)])
    ELSE None

-----------------------------------------------------------------------------
(* model.rs: RFQ *)

\* (variant: a deadline equal to now is let through)
rfq_deadline_passed_strict(r, t) == r.deadline < t

\* the deadline test of validate
rfq_deadline_passed(r, t) == r.deadline <= t

\* RFQ::validate(&self) at time t
rfq_validate(r, t) ==
    IF r.quantity = 0 THEN "Validation"
    ELSE IF r.max_price <= 0 THEN "Validation"
    ELSE IF rfq_deadline_passed(r, t) THEN "Validation"
    ELSE "Ok"

-----------------------------------------------------------------------------
(* model.rs: Quote *)

\* Quote::new(rfq_id, seller_id, price, currency, available_quantity, ttl_seconds)
\* at time t
Quote_new(id, price, available_quantity, ttl_seconds, t) ==
    [id |-> id, price |-> price, available_quantity |-> available_quantity,
     ttl_seconds |-> ttl_seconds, created_at |-> t]

\* (variant: a quote already counts as expired at created_at + ttl_seconds)
is_expired_at_ttl(q, t) == t >= q.created_at + q.ttl_seconds

\* Quote::is_expired(&self) at time t, t and created_at in seconds
is_expired(q, t) == t > q.created_at + q.ttl_seconds

-----------------------------------------------------------------------------
(* trust.rs: TrustSystem *)

\* TrustSystem::new: cache_ttl = Duration::minutes(30)
CacheTtl == 30

\* (variant: the first band one score too wide)
TrustLevel_from_off_by_one(score) ==
    IF score <= 50 THEN "Untrusted"
    ELSE IF score <= 74 THEN "Neutral"
    ELSE IF score <= 89 THEN "Trusted"
    ELSE "HighlyTrusted"

\* impl From<u32> for TrustLevel
TrustLevel_from(score) ==
    IF score >= 0 /\ score <= 49 THEN "Untrusted"
    ELSE IF score >= 50 /\ score <= 74 THEN "Neutral"
    ELSE IF score >= 75 /\ score <= 89 THEN "Trusted"
    ELSE "HighlyTrusted"

\* TrustSystem::get_reputation(&self, agent_id) on cache c at time t
get_reputation(c, agent_id, t) ==
    IF agent_id \in DOMAIN c /\ t - c[agent_id].last_updated < CacheTtl
    THEN c[agent_id].score
    ELSE 0

\* TrustSystem::get_trust_level(&self, agent_id)
get_trust_level(c, agent_id, t) == TrustLevel_from(get_reputation(c, agent_id, t))

\* current_score as i32 + score_change overflows i32 (current_score >= 0)
i32_add_overflows(a, b) == b > I32Max - a

\* the wrapped sum of a release build, computed without leaving the i32 range
i32_add_wrapping(a, b) ==
    IF i32_add_overflows(a, b) THEN I32Min + (a - (I32Max - b) - 1) ELSE a + b

Max(a, b) == IF a >= b THEN a ELSE b
Min(a, b) == IF a <= b THEN a ELSE b

\* (variant: the upper clamp left out)
clamp_low_only(x) == Max(x, 0)

\* .max(0).min(100) as u32
clamp_score(x) == Min(Max(x, 0), 100)

\* TrustSystem::update_reputation(&mut self, agent_id, score_change) at time t:
\* the result and the cache after it.  An overflowing addition panics in a
\* debug build, before the cache is written, and wraps in a release build.
update_reputation(c, agent_id, score_change, t, build) ==
    LET current_score == get_reputation(c, agent_id, t) IN
    IF i32_add_overflows(current_score, score_change) /\ build = "debug"
    THEN [ret |-> "Panic", cache |-> c]
    ELSE
      LET new_score == clamp_score(i32_add_wrapping(current_score, score_change))
          entry == [score |-> new_score,
                    last_updated |-> t,
                    trust_level |-> TrustLevel_from(new_score)]
      IN [ret |-> "Ok",
          cache |-> [a \in DOMAIN c \cup {agent_id} |->
                        IF a = agent_id THEN entry ELSE c[a]]]

\* TrustSystem::update_reputation from the score it has read on: the cache
\* after the insert of the new entry (the addition wraps as in a release build)
write_reputation(c, agent_id, current_score, score_change, t) ==
    LET new_score == clamp_score(i32_add_wrapping(current_score, score_change))
        entry == [score |-> new_score,
                  last_updated |-> t,
                  trust_level |-> TrustLevel_from(new_score)]
    IN [a \in DOMAIN c \cup {agent_id} |-> IF a = agent_id THEN entry ELSE c[a]]

\* (variant: the amounts accept_quote gives, 5 to the seller and 3 to the buyer)
record_successful_transaction_buyer_3(c, buyer_id, seller_id, t, build) ==
    LET first == update_reputation(c, buyer_id, 3, t, build) IN
    IF first.ret # "Ok" THEN first
    ELSE update_reputation(first.cache, seller_id, 5, t, build)

\* TrustSystem::record_successful_transaction(&mut self, buyer_id, seller_id)
\* at time t: the result and the cache after it
record_successful_transaction(c, buyer_id, seller_id, t, build) ==
    LET first == update_reputation(c, buyer_id, 5, t, build) IN
    IF first.ret # "Ok" THEN first
    ELSE update_reputation(first.cache, seller_id, 5, t, build)

\* TrustSystem::record_failed_transaction(&mut self, buyer_id, seller_id)
record_failed_transaction(c, buyer_id, seller_id, t, build) ==
    LET first == update_reputation(c, buyer_id, -3, t, build) IN
    IF first.ret # "Ok" THEN first
    ELSE update_reputation(first.cache, seller_id, -3, t, build)

\* (variant: the purge keeps the entries it should drop and drops the others)
purge_keeps_inverted(e, t) == t - e.last_updated >= CacheTtl * 2

\* (variant: the purge keeps an entry only while it is fresh)
purge_keeps_within_ttl(e, t) == t - e.last_updated < CacheTtl

\* the retain predicate of purge_old_cache_entries
purge_keeps(e, t) == t - e.last_updated < CacheTtl * 2

\* TrustSystem::purge_old_cache_entries(&mut self) at time t
purge_old_cache_entries(c, t) ==
    [a \in {x \in DOMAIN c : purge_keeps(c[x], t)} |-> c[a]]

\* format!("{:?}", trust_level).to_lowercase()
debug_lowercase(level) ==
    CASE level = "Untrusted" -> "untrusted"
      [] level = "Neutral" -> "neutral"
      [] level = "Trusted" -> "trusted"
      [] level = "HighlyTrusted" -> "highlytrusted"

\* Duration::hours(24), in minutes
JwtExpiry == 1440

\* (variant: tokens expire 12 hours after issuance)
jwt_claims_half_day(c, agent_id, t) ==
    [sub |-> agent_id,
     role |-> "agent",
     exp |-> t + JwtExpiry \div 2,
     iat |-> t,
     reputation_score |-> get_reputation(c, agent_id, t),
     trust_level |-> debug_lowercase(get_trust_level(c, agent_id, t))]

\* TrustSystem::generate_jwt: the claims signed into the token (exp, iat in
\* minutes)
jwt_claims(c, agent_id, t) ==
    [sub |-> agent_id,
     role |-> "agent",
     exp |-> t + JwtExpiry,
     iat |-> t,
     reputation_score |-> get_reputation(c, agent_id, t),
     trust_level |-> debug_lowercase(get_trust_level(c, agent_id, t))]

\* TrustSystem.jwt_secret
JwtSecret == "your-secret-key-here"

\* jsonwebtoken::encode(&Header::default(), &claims, &EncodingKey::from_secret(..)):
\* the claims under an HS256 signature made with the secret
encode(claims, secret) == [alg |-> "HS256", claims |-> claims, key |-> secret]

\* TrustSystem::generate_jwt(&mut self, agent_id) at time t
generate_jwt(c, secret, agent_id, t) ==
    [ret |-> "Ok", token |-> Some(encode(jwt_claims(c, agent_id, t), secret))]

\* the default leeway of jsonwebtoken::Validation (60 seconds), in minutes
JwtLeeway == 1

\* jsonwebtoken::decode under Validation::new(Algorithm::HS256) with
\* validate_exp: the signature, then exp against the clock
decode(jwt, secret, t) ==
    IF jwt.alg # "HS256" \/ jwt.key # secret THEN [ret |-> "Auth", claims |-> None]
    ELSE IF jwt.claims.exp < t - JwtLeeway THEN [ret |-> "Auth", claims |-> None]
    ELSE [ret |-> "Ok", claims |-> Some(jwt.claims)]

\* TrustSystem::validate_jwt(&self, token) at time t
validate_jwt(secret, jwt, t) == decode(jwt, secret, t)

-----------------------------------------------------------------------------
(* agent.rs: SellerAgent.  An f64 the seller computes by multiplying with    *)
(* decimal factors is an exact ratio num / den, not reduced.                  *)

Ratio(num, den) == [num |-> num, den |-> den]

\* SellerAgentConfig.products: base_price counts hundreds of dollars
Products == {[id |-> "widget", base_price |-> 1, stock_quantity |-> 12]}

\* the pricing factor 1.0, counted in units of 10^-8
FactorUnit == 100000000

\* factor *= hundredths / 100 (exact: a factor that went through k of the four
\* multiplications is a multiple of 100^(4-k))
Times(factor, hundredths) == (factor \div 100) * hundredths

\* Utc::now().hour()
hour(t) == (t \div 60) % 24

\* (variant: the surcharge ends at 17:00)
business_hours_before_17(h) == h >= 9 /\ h < 17

\* hour >= 9 && hour <= 17
business_hours(h) == h >= 9 /\ h <= 17

\* SellerAgent::calculate_dynamic_pricing(&self, rfq, buyer_reputation) at time t
calculate_dynamic_pricing(quantity, buyer_reputation, t) ==
    LET volume == IF quantity > 10 THEN Times(FactorUnit, 95) ELSE FactorUnit
        reputation == IF buyer_reputation >= 80 THEN Times(volume, 98) ELSE volume
        time_based == IF business_hours(hour(t)) THEN Times(reputation, 102) ELSE reputation
    IN  Times(time_based, 101)

\* SellerAgent::handle_rfq(&mut self, rfq) at time t, with trust cache c;
\* quote_id is the Uuid::new_v4() of Quote::new
handle_rfq(c, r, quote_id, t) ==
    LET found == {p \in Products : p.id = r.product_id} IN
    IF found = {} THEN [ret |-> "ProductNotFound", quote |-> None]
    ELSE
      LET product == CHOOSE p \in found : TRUE
          buyer_reputation == get_reputation(c, r.buyer_id, t)
          base_price == product.base_price * r.quantity
          final_price == Ratio(base_price * calculate_dynamic_pricing(r.quantity, buyer_reputation, t),
                               FactorUnit)
      IN
      IF r.quantity > product.stock_quantity THEN [ret |-> "Validation", quote |-> None]
      ELSE IF buyer_reputation < 50
        THEN [ret |-> "InsufficientReputation", quote |-> None]
      ELSE [ret |-> "Ok",
            quote |-> Some(Quote_new(quote_id, final_price, r.quantity, 3600, t))]

\* the mock opening bid of handle_negotiation
MockOpeningBid == 100

\* counter_offer < opening_bid * 0.8
counter_offer_too_low(counter_offer, opening_bid) == counter_offer * 10 < opening_bid * 8

\* the acceptance threshold of handle_negotiation, in hundredths
acceptance_threshold(buyer_reputation) ==
    IF buyer_reputation >= 80 THEN 95
    ELSE IF buyer_reputation >= 60 THEN 90
    ELSE 85

\* SellerAgent::handle_negotiation(&self, negotiation_id, counter_offer) at time
\* t; buyer_id is its Uuid::new_v4(), quote_id the one of Quote::new
handle_negotiation(c, seller_id, buyer_id, counter_offer, quote_id, t) ==
    LET opening_bid == MockOpeningBid
        buyer_reputation == get_reputation(c, buyer_id, t)
        adjusted_price == Ratio(counter_offer * acceptance_threshold(buyer_reputation), 100)
    IN
    IF buyer_id = seller_id THEN [ret |-> "Auth", quote |-> None]
    ELSE IF counter_offer_too_low(counter_offer, opening_bid)
      THEN [ret |-> "Negotiation", quote |-> None]
    ELSE [ret |-> "Ok", quote |-> Some(Quote_new(quote_id, adjusted_price, 1, 1800, t))]

-----------------------------------------------------------------------------
(* settlement.rs: SettlementService *)

\* Duration::days(d), in minutes
Days(d) == d * 24 * 60

\* A call reads the clock several times and the clock may advance between two
\* reads: ClockReads(t, max) are the instants of three successive Utc::now()
\* reads of a call entered at t, one unit of the model's clock standing for any
\* advance.
ClockReads(t, max) ==
    {ts \in [1..3 -> t..Min(t + 1, max)] : ts[1] <= ts[2] /\ ts[2] <= ts[3]}

\* a call during which the clock does not advance
SameInstant(t) == [i \in 1..3 |-> t]

\* process_stripe_payment(&self, request); uuid is the Uuid::new_v4() of the
\* payment id, ts the clock reads
process_stripe_payment(request, uuid, ts) ==
    [success |-> TRUE, payment_id |-> <<"stripe", uuid>>,
     transaction_id |-> request.transaction_id, amount |-> request.amount,
     currency |-> request.currency, status |-> "Succeeded",
     created_at |-> ts[1], completed_at |-> Some(ts[2]), error_message |-> None]

\* process_solana_payment(&self, request)
process_solana_payment(request, uuid, ts) ==
    [success |-> TRUE, payment_id |-> <<"sol", uuid>>,
     transaction_id |-> request.transaction_id, amount |-> request.amount,
     currency |-> request.currency, status |-> "Succeeded",
     created_at |-> ts[1], completed_at |-> Some(ts[2]), error_message |-> None]

\* the EscrowHold process_escrow_payment builds: created_at and expires_at come
\* from two reads of the clock
escrow_hold(request, uuid, ts) ==
    [id |-> uuid, transaction_id |-> request.transaction_id,
     buyer_id |-> request.buyer_id, seller_id |-> request.seller_id,
     amount |-> request.amount, currency |-> request.currency,
     hold_duration_seconds |-> 7 * 24 * 3600,
     created_at |-> ts[1], expires_at |-> ts[2] + Days(7),
     status |-> "Active",
     release_conditions |-> <<"Delivery confirmed", "Quality verified">>]

\* process_escrow_payment(&self, request): the hold is logged and dropped, the
\* result is returned
process_escrow_payment(request, uuid, ts) ==
    [success |-> TRUE, payment_id |-> <<"escrow", escrow_hold(request, uuid, ts).id>>,
     transaction_id |-> request.transaction_id, amount |-> request.amount,
     currency |-> request.currency, status |-> "Pending",
     created_at |-> ts[3], completed_at |-> None, error_message |-> None]

\* (variant: every request is handed to the Stripe handler)
process_payment_stripe_only(request, uuid, ts) ==
    [ret |-> "Ok", handler |-> "process_stripe_payment",
     result |-> process_stripe_payment(request, uuid, ts)]

\* process_payment(&self, request): Result<PaymentResult>; handler names the
\* arm of the match that ran
process_payment(request, uuid, ts) ==
    CASE request.payment_method = "Stripe" ->
           [ret |-> "Ok", handler |-> "process_stripe_payment",
            result |-> process_stripe_payment(request, uuid, ts)]
      [] request.payment_method = "Solana" ->
           [ret |-> "Ok", handler |-> "process_solana_payment",
            result |-> process_solana_payment(request, uuid, ts)]
      [] request.payment_method = "Escrow" ->
           [ret |-> "Ok", handler |-> "process_escrow_payment",
            result |-> process_escrow_payment(request, uuid, ts)]

\* the PaymentRequest create_payment builds: defaults to Stripe
payment_request(transaction_id, buyer_id, seller_id, amount, currency) ==
    [transaction_id |-> transaction_id, buyer_id |-> buyer_id, seller_id |-> seller_id,
     amount |-> amount, currency |-> currency, payment_method |-> "Stripe"]

\* create_payment(&self, buyer_id, seller_id, amount, currency); transaction_id
\* is its Uuid::new_v4()
create_payment(transaction_id, buyer_id, seller_id, amount, currency, uuid, ts) ==
    process_payment(payment_request(transaction_id, buyer_id, seller_id, amount, currency),
                    uuid, ts)

\* release_escrow(&self, escrow_id); transaction_id is its Uuid::new_v4()
release_escrow(escrow_id, transaction_id, ts) ==
    [ret |-> "Ok",
     result |-> [success |-> TRUE, payment_id |-> <<"escrow_release", escrow_id>>,
                 transaction_id |-> transaction_id, amount |-> 0, currency |-> "USD",
                 status |-> "Succeeded", created_at |-> ts[1],
                 completed_at |-> Some(ts[2]), error_message |-> None]]

\* validate_payment_method(&self, method): Ok(the rail's configuration value is Some)
validate_payment_method(cfg, method) == method \in cfg

\* validate_webhook_signature(&self, _payload, _signature): Ok(true)
validate_webhook_signature(payload, signature) == TRUE

\* handle_webhook(&self, payload, signature): Result<()>
handle_webhook(payload, signature) ==
    IF ~validate_webhook_signature(payload, signature) THEN "Payment" ELSE "Ok"

-----------------------------------------------------------------------------
(* The clock *)

Tick ==
    /\ \E d \in TickSteps :
          /\ now + d <= MaxNow
          /\ now' = now + d
    /\ UNCHANGED <<objectVars, agentVars, serviceVars, sharedVars, reputation_cache, call>>

-----------------------------------------------------------------------------
(* Spec: one Negotiation object, built from an RFQ, driven through its methods *)

RFQInputs == [buyer_id : {BuyerId}, quantity : {1}, max_price : BidSet, deadline : {MaxNow}]

Init ==
    /\ now = 0
    /\ rfq \in RFQInputs
    /\ issued_quote = None
    /\ negotiation = Negotiation_new(rfq, SellerId, 0)
    /\ active_negotiations = <<>>
    /\ payments = <<>>
    /\ settles = <<>>
    /\ holds = <<>>
    /\ token = None
    /\ config = {}
    /\ recorded = 0
    /\ tasks = <<>>
    /\ lock = None
    /\ reputation_cache = <<>>
    /\ call = NoCall

CallAddQuote ==
    /\ \E q \in Quotes :
          LET r == add_quote(negotiation, q, now) IN
          /\ negotiation' = r.neg
          /\ call' = [op |-> "add_quote", quote |-> q, pre |-> negotiation, ret |-> r.ret]
    /\ UNCHANGED <<now, rfq, issued_quote, agentVars, serviceVars, sharedVars, reputation_cache>>

CallAccept ==
    /\ \E p \in PriceSet :
          LET r == accept(negotiation, p, now) IN
          /\ negotiation' = r.neg
          /\ call' = [op |-> "accept", final_price |-> p, pre |-> negotiation, ret |-> r.ret]
    /\ UNCHANGED <<now, rfq, issued_quote, agentVars, serviceVars, sharedVars, reputation_cache>>

CallReject ==
    /\ LET r == reject(negotiation, now) IN
          /\ negotiation' = r.neg
          /\ call' = [op |-> "reject", pre |-> negotiation, ret |-> r.ret]
    /\ UNCHANGED <<now, rfq, issued_quote, agentVars, serviceVars, sharedVars, reputation_cache>>

CallSettle ==
    /\ LET r == settle(negotiation, now) IN
          /\ negotiation' = r.neg
          /\ call' = [op |-> "settle", pre |-> negotiation, ret |-> r.ret]
    /\ UNCHANGED <<now, rfq, issued_quote, agentVars, serviceVars, sharedVars, reputation_cache>>

CallToRecord ==
    /\ call' = [op |-> "to_record", pre |-> negotiation, ret |-> to_record(negotiation)]
    /\ UNCHANGED <<now, objectVars, agentVars, serviceVars, sharedVars, reputation_cache>>

Next ==
    \/ CallAddQuote
    \/ CallAccept
    \/ CallReject
    \/ CallSettle
    \/ CallToRecord
    \/ Tick

Spec == Init /\ [][Next]_vars

-----------------------------------------------------------------------------
(* SpecTrust, SpecTrustI32, SpecTier: a TrustSystem driven through its methods *)

InitTrust ==
    /\ now = 0
    /\ rfq = None
    /\ issued_quote = None
    /\ negotiation = None
    /\ active_negotiations = <<>>
    /\ payments = <<>>
    /\ settles = <<>>
    /\ holds = <<>>
    /\ token = None
    /\ config = {}
    /\ recorded = 0
    /\ tasks = <<>>
    /\ lock = None
    /\ reputation_cache = <<>>
    /\ call = NoCall

\* one update_reputation(agent_id, score_change) call
UpdateReputation(agent_id, score_change) ==
    /\ \E build \in Builds :
          LET r == update_reputation(reputation_cache, agent_id, score_change, now, build) IN
          /\ reputation_cache' = r.cache
          /\ call' = [op |-> "update_reputation", agent |-> agent_id,
                      score_change |-> score_change,
                      pre |-> IF agent_id \in DOMAIN reputation_cache
                              THEN Some(reputation_cache[agent_id]) ELSE None,
                      at |-> now, ret |-> r.ret]
    /\ UNCHANGED <<now, objectVars, agentVars, serviceVars, sharedVars>>

CallUpdateReputation == \E a \in Agents, d \in DeltaSet : UpdateReputation(a, d)

CallUpdateReputationI32 == \E a \in Agents, d \in DeltaSetI32 : UpdateReputation(a, d)

CallUpdateReputationTier == \E d \in DeltaSetTier : UpdateReputation(BuyerId, d)

CallGetTrustLevel ==
    /\ \E a \in Agents :
          call' = [op |-> "get_trust_level", agent |-> a,
                   score |-> get_reputation(reputation_cache, a, now),
                   ret |-> get_trust_level(reputation_cache, a, now)]
    /\ UNCHANGED <<now, objectVars, agentVars, serviceVars, sharedVars, reputation_cache>>

CallGenerateJwt ==
    /\ \E a \in Agents :
          call' = [op |-> "generate_jwt", agent |-> a,
                   ret |-> jwt_claims(reputation_cache, a, now)]
    /\ UNCHANGED <<now, objectVars, agentVars, serviceVars, sharedVars, reputation_cache>>

CallPurge ==
    /\ reputation_cache' = purge_old_cache_entries(reputation_cache, now)
    /\ call' = [op |-> "purge_old_cache_entries", pre |-> reputation_cache, at |-> now,
                ret |-> "Ok"]
    /\ UNCHANGED <<now, objectVars, agentVars, serviceVars, sharedVars>>

NextTrust ==
    \/ CallUpdateReputation
    \/ CallGenerateJwt
    \/ CallPurge
    \/ Tick

SpecTrust == InitTrust /\ [][NextTrust]_vars

NextTrustI32 ==
    \/ CallUpdateReputationI32
    \/ CallPurge
    \/ Tick

SpecTrustI32 == InitTrust /\ [][NextTrustI32]_vars

NextTier ==
    \/ CallUpdateReputationTier
    \/ CallGetTrustLevel
    \/ Tick

SpecTier == InitTrust /\ [][NextTier]_vars

-----------------------------------------------------------------------------
(* SpecRFQ: RFQ::validate applied to an RFQ as time passes *)

RFQValidateInputs ==
    [buyer_id : {BuyerId}, quantity : {0, 1, 12}, max_price : {-10, 0, 1, 100},
     deadline : {0, 15, 30, 45}]

InitRFQ ==
    /\ now = 0
    /\ rfq \in RFQValidateInputs
    /\ issued_quote = None
    /\ negotiation = None
    /\ active_negotiations = <<>>
    /\ payments = <<>>
    /\ settles = <<>>
    /\ holds = <<>>
    /\ token = None
    /\ config = {}
    /\ recorded = 0
    /\ tasks = <<>>
    /\ lock = None
    /\ reputation_cache = <<>>
    /\ call = NoCall

CallValidate ==
    /\ call' = [op |-> "validate", at |-> now, ret |-> rfq_validate(rfq, now)]
    /\ UNCHANGED <<now, objectVars, agentVars, serviceVars, sharedVars, reputation_cache>>

NextRFQ ==
    \/ CallValidate
    \/ Tick

SpecRFQ == InitRFQ /\ [][NextRFQ]_vars

-----------------------------------------------------------------------------
(* SpecQuote: a Quote built by Quote::new, asked whether it is expired, and  *)
(* handed to the Negotiation as BuyerAgent does (request_quote and negotiate *)
(* call add_quote(&quote), accept_quote calls accept(quote.price)), while    *)
(* the clock, here in seconds, advances.                                     *)

MaxQuoteNow == 4
TtlSet == {1, 2}

InitQuote ==
    /\ now = 0
    /\ rfq \in RFQInputs
    /\ issued_quote = None
    /\ negotiation = Negotiation_new(rfq, SellerId, 0)
    /\ active_negotiations = <<>>
    /\ payments = <<>>
    /\ settles = <<>>
    /\ holds = <<>>
    /\ token = None
    /\ config = {}
    /\ recorded = 0
    /\ tasks = <<>>
    /\ lock = None
    /\ reputation_cache = <<>>
    /\ call = NoCall

TickSecond ==
    /\ now + 1 <= MaxQuoteNow
    /\ now' = now + 1
    /\ UNCHANGED <<objectVars, agentVars, serviceVars, sharedVars, reputation_cache, call>>

CallQuoteNew ==
    \E id \in QuoteIds, price \in {90, 110}, ttl_seconds \in TtlSet :
        /\ issued_quote' = Some(Quote_new(id, price, rfq.quantity, ttl_seconds, now))
        /\ call' = [op |-> "Quote::new", at |-> now, ret |-> "Ok"]
        /\ UNCHANGED <<now, rfq, negotiation, agentVars, serviceVars, sharedVars, reputation_cache>>

CallIsExpired ==
    /\ IsSome(issued_quote)
    /\ call' = [op |-> "is_expired", quote |-> Unwrap(issued_quote), at |-> now,
                ret |-> is_expired(Unwrap(issued_quote), now)]
    /\ UNCHANGED <<now, objectVars, agentVars, serviceVars, sharedVars, reputation_cache>>

\* negotiation.add_quote(&quote) with the seller's quote (agent.rs:128, 155)
CallAddIssuedQuote ==
    /\ IsSome(issued_quote)
    /\ LET r == add_quote(negotiation, Unwrap(issued_quote), now) IN
          /\ negotiation' = r.neg
          /\ call' = [op |-> "add_quote", quote |-> Unwrap(issued_quote), at |-> now,
                      pre |-> negotiation, ret |-> r.ret]
    /\ UNCHANGED <<now, rfq, issued_quote, agentVars, serviceVars, sharedVars, reputation_cache>>

\* negotiation.accept(quote.price) with the seller's quote (agent.rs:172)
CallAcceptIssuedQuote ==
    /\ IsSome(issued_quote)
    /\ LET r == accept(negotiation, Unwrap(issued_quote).price, now) IN
          /\ negotiation' = r.neg
          /\ call' = [op |-> "accept", quote |-> Unwrap(issued_quote), at |-> now,
                      pre |-> negotiation, ret |-> r.ret]
    /\ UNCHANGED <<now, rfq, issued_quote, agentVars, serviceVars, sharedVars, reputation_cache>>

NextQuote ==
    \/ CallQuoteNew
    \/ CallIsExpired
    \/ CallAddIssuedQuote
    \/ CallAcceptIssuedQuote
    \/ TickSecond

SpecQuote == InitQuote /\ [][NextQuote]_vars

-----------------------------------------------------------------------------
(* SpecAgent: a BuyerAgent driven through its methods.  Every method takes     *)
(* &mut self and the agent is driven by one command loop (bin/buyer_agent.rs), *)
(* so a method runs to its end before the next starts; what the network        *)
(* answers is an input of the call.                                            *)

\* BuyerAgentConfig.default_ttl_hours
DefaultTtlHours == 24

NegIds == 1..MaxNegotiations
AgentBidSet == {0, 100}
QuantitySet == {0, 1}
StockSet == {0, 5}
CounterOffers == {90, 110}
RequestAnswers == {"product_not_found", "no_seller", "send_failed", "not_success", "ok"}
LookupAnswers == {"agent_lookup_failed", "send_failed", "not_success", "ok"}

\* the quote in the answer of the seller; an answer that is not "ok" carries none
QuotesFor(answer) == IF answer = "ok" THEN Quotes ELSE {CHOOSE q \in Quotes : TRUE}

InitAgent ==
    /\ now = 0
    /\ rfq = None
    /\ issued_quote = None
    /\ negotiation = None
    /\ active_negotiations = <<>>
    /\ payments = <<>>
    /\ settles = <<>>
    /\ holds = <<>>
    /\ token = None
    /\ config = {}
    /\ recorded = 0
    /\ tasks = <<>>
    /\ lock = None
    /\ reputation_cache = <<>>
    /\ call = NoCall

\* the clock of SpecAgent
TickAgent ==
    /\ now + CacheTtl <= MaxNow
    /\ now' = now + CacheTtl
    /\ UNCHANGED <<objectVars, agentVars, serviceVars, sharedVars, reputation_cache, call>>

Insert(map, key, value) == [k \in DOMAIN map \cup {key} |-> IF k = key THEN value ELSE map[k]]

Failed(op, id, err) ==
    /\ call' = [op |-> op, id |-> id, pre |-> active_negotiations,
                cache |-> reputation_cache, ret |-> err]
    /\ UNCHANGED <<now, objectVars, agentVars, serviceVars, sharedVars, reputation_cache>>

\* BuyerAgent::request_quote(&mut self, product_id, quantity, max_price)
RequestQuote ==
    \E id \in NegIds \ DOMAIN active_negotiations,
       quantity \in QuantitySet, max_price \in AgentBidSet, stock \in StockSet,
       answer \in RequestAnswers :
      \E quote \in QuotesFor(answer) :
      LET r == [buyer_id |-> BuyerId, quantity |-> quantity, max_price |-> max_price,
                deadline |-> now + DefaultTtlHours * 60]
          fresh == Negotiation_new(r, SellerId, now)
          quoted == add_quote(fresh, quote, now)
      IN
      IF answer = "product_not_found" THEN Failed("request_quote", id, "ProductNotFound")
      ELSE IF quantity > stock THEN Failed("request_quote", id, "Validation")
      ELSE IF rfq_validate(r, now) # "Ok" THEN Failed("request_quote", id, rfq_validate(r, now))
      ELSE IF answer = "no_seller" THEN Failed("request_quote", id, "Validation")
      ELSE
        /\ payments' = Insert(payments, id, 0)
        /\ settles' = Insert(settles, id, 0)
        /\ IF answer = "ok" /\ quoted.ret = "Ok"
           THEN /\ active_negotiations' = Insert(active_negotiations, id, quoted.neg)
                /\ call' = [op |-> "request_quote", id |-> id,
                            pre |-> active_negotiations, ret |-> "Ok"]
           ELSE /\ active_negotiations' = Insert(active_negotiations, id, fresh)
                /\ call' = [op |-> "request_quote", id |-> id,
                            pre |-> active_negotiations,
                            ret |-> IF answer = "ok" THEN quoted.ret ELSE "Network"]
        /\ UNCHANGED <<now, objectVars, serviceVars, sharedVars, reputation_cache>>

\* the price test of negotiate
counter_offer_refused(n, counter_offer) == counter_offer <= n.opening_bid

\* an early return of negotiate: nothing but the answer of the call changes
NegotiateFailed(id, counter_offer, err) ==
    /\ call' = [op |-> "negotiate", id |-> id, counter_offer |-> counter_offer,
                pre |-> IF id \in DOMAIN active_negotiations
                        THEN Some(active_negotiations[id]) ELSE None,
                ret |-> err]
    /\ UNCHANGED <<now, objectVars, agentVars, serviceVars, sharedVars, reputation_cache>>

\* BuyerAgent::negotiate(&mut self, negotiation_id, counter_offer)
Negotiate ==
    \E id \in NegIds, counter_offer \in CounterOffers, answer \in LookupAnswers :
      \E quote \in QuotesFor(answer) :
      IF id \notin DOMAIN active_negotiations
      THEN NegotiateFailed(id, counter_offer, "Validation")
      ELSE IF counter_offer_refused(active_negotiations[id], counter_offer)
           THEN NegotiateFailed(id, counter_offer, "Validation")
      ELSE IF answer = "agent_lookup_failed"
           THEN NegotiateFailed(id, counter_offer, "AgentNotFound")
      ELSE IF answer # "ok" THEN NegotiateFailed(id, counter_offer, "Network")
      ELSE
        LET r == add_quote(active_negotiations[id], quote, now) IN
        /\ active_negotiations' = [active_negotiations EXCEPT ![id] = r.neg]
        /\ call' = [op |-> "negotiate", id |-> id, counter_offer |-> counter_offer,
                    pre |-> Some(active_negotiations[id]), ret |-> r.ret]
        /\ UNCHANGED <<now, objectVars, serviceVars, sharedVars, payments, settles, reputation_cache>>

\* BuyerAgent::accept_quote(&mut self, negotiation_id)
AcceptQuote ==
    \E id \in NegIds, answer \in LookupAnswers :
      \E quote \in QuotesFor(answer) :
      IF id \notin DOMAIN active_negotiations THEN Failed("accept_quote", id, "Validation")
      ELSE IF answer = "agent_lookup_failed" THEN Failed("accept_quote", id, "AgentNotFound")
      ELSE IF answer = "send_failed" THEN Failed("accept_quote", id, "Network")
      ELSE IF answer = "not_success" THEN Failed("accept_quote", id, "Negotiation")
      ELSE IF ~IsSome(active_negotiations[id].quote_id)
           THEN Failed("accept_quote", id, "Negotiation")
      ELSE
        LET accepted == accept(active_negotiations[id], quote.price, now) IN
        IF accepted.ret # "Ok" THEN Failed("accept_quote", id, accepted.ret)
        ELSE
          LET payment == create_payment("t1", accepted.neg.buyer_id, accepted.neg.seller_id,
                                        quote.price, "USD", "u1", SameInstant(now))
              settled == settle(accepted.neg, now)
              paid == payment.ret = "Ok" /\ payment.result.success
              c1 == update_reputation(reputation_cache, settled.neg.seller_id, 5, now, "release")
              c2 == update_reputation(c1.cache, settled.neg.buyer_id, 3, now, "release")
              scores == [a \in Agents |-> get_reputation(reputation_cache, a, now)]
          IN
          /\ payments' = [payments EXCEPT ![id] = @ + 1]
          /\ IF paid /\ settled.ret = "Ok"
             THEN /\ active_negotiations' = [active_negotiations EXCEPT ![id] = settled.neg]
                  /\ settles' = [settles EXCEPT ![id] = @ + 1]
                  /\ reputation_cache' = c2.cache
                  /\ call' = [op |-> "accept_quote", id |-> id, ret |-> "Ok",
                              pre |-> active_negotiations,
                              paid |-> TRUE, scores |-> scores]
             ELSE /\ active_negotiations' = [active_negotiations EXCEPT ![id] = accepted.neg]
                  /\ UNCHANGED <<settles, reputation_cache>>
                  /\ call' = [op |-> "accept_quote", id |-> id,
                              pre |-> active_negotiations,
                              ret |-> IF payment.ret # "Ok" THEN payment.ret
                                      ELSE IF paid THEN settled.ret ELSE "Ok",
                              paid |-> paid, scores |-> scores]
          /\ UNCHANGED <<now, objectVars, serviceVars, sharedVars>>

\* BuyerAgent::reject_quote(&mut self, negotiation_id)
RejectQuote ==
    \E id \in NegIds :
      IF id \notin DOMAIN active_negotiations THEN Failed("reject_quote", id, "Validation")
      ELSE
        LET r == reject(active_negotiations[id], now) IN
        IF r.ret # "Ok" THEN Failed("reject_quote", id, r.ret)
        ELSE
          /\ active_negotiations' = [active_negotiations EXCEPT ![id] = r.neg]
          /\ reputation_cache' =
                update_reputation(reputation_cache, r.neg.seller_id, -2, now, "release").cache
          /\ call' = [op |-> "reject_quote", id |-> id, pre |-> active_negotiations,
                      cache |-> reputation_cache,
                      scores |-> [a \in Agents |-> get_reputation(reputation_cache, a, now)],
                      ret |-> "Ok"]
          /\ UNCHANGED <<now, objectVars, serviceVars, sharedVars, payments, settles>>

NextAgent ==
    \/ RequestQuote
    \/ Negotiate
    \/ AcceptQuote
    \/ RejectQuote
    \/ TickAgent

SpecAgent == InitAgent /\ [][NextAgent]_vars

-----------------------------------------------------------------------------
(* SpecSettlement: a SettlementService driven through its public methods.    *)
(* The service holds its configuration only; holds records the EscrowHold    *)
(* values process_escrow_payment built.                                      *)

MaxSettleNow == 2

Uuids == {"u1", "u2"}
PaymentMethods == {"Stripe", "Solana", "Escrow"}
Orders == {[transaction_id |-> "t1", amount |-> 100, currency |-> "USD"],
           [transaction_id |-> "t2", amount |-> 250, currency |-> "EUR"]}
PaymentRequests ==
    {[transaction_id |-> o.transaction_id, buyer_id |-> BuyerId, seller_id |-> SellerId,
      amount |-> o.amount, currency |-> o.currency, payment_method |-> m] :
        o \in Orders, m \in PaymentMethods}

\* webhook inputs: the signature the payment processor computes over a payload,
\* and signatures it did not compute
Payloads == {"p1", "p2"}
Sign(payload) == <<"signed", payload>>
Signatures == {Sign(payload) : payload \in Payloads} \cup {<<"forged", "p1">>}

InitSettlement ==
    /\ now = 0
    /\ rfq = None
    /\ issued_quote = None
    /\ negotiation = None
    /\ active_negotiations = <<>>
    /\ payments = <<>>
    /\ settles = <<>>
    /\ holds = <<>>
    /\ token = None
    /\ config \in SUBSET PaymentMethods
    /\ recorded = 0
    /\ tasks = <<>>
    /\ lock = None
    /\ reputation_cache = <<>>
    /\ call = NoCall

CallProcessPayment ==
    \E request \in PaymentRequests, uuid \in Uuids \ DOMAIN holds,
       ts \in ClockReads(now, MaxSettleNow) :
        LET r == process_payment(request, uuid, ts) IN
        /\ holds' = IF r.handler = "process_escrow_payment"
                     THEN Insert(holds, uuid, escrow_hold(request, uuid, ts))
                     ELSE holds
        /\ now' = ts[3]
        /\ call' = [op |-> "process_payment", request |-> request, ret |-> r.ret,
                    handler |-> r.handler, result |-> r.result, pre_holds |-> holds]
        /\ UNCHANGED <<objectVars, agentVars, token, config, sharedVars, reputation_cache>>

CallCreatePayment ==
    \E o \in Orders, uuid \in Uuids, ts \in ClockReads(now, MaxSettleNow) :
        LET r == create_payment(o.transaction_id, BuyerId, SellerId, o.amount,
                                o.currency, uuid, ts)
        IN
        /\ now' = ts[3]
        /\ call' = [op |-> "create_payment",
                    request |-> payment_request(o.transaction_id, BuyerId, SellerId,
                                                o.amount, o.currency),
                    ret |-> r.ret, handler |-> r.handler, result |-> r.result,
                    pre_holds |-> holds]
        /\ UNCHANGED <<objectVars, agentVars, serviceVars, sharedVars, reputation_cache>>

CallReleaseEscrow ==
    \E escrow_id \in Uuids, ts \in ClockReads(now, MaxSettleNow) :
        LET r == release_escrow(escrow_id, "t3", ts) IN
        /\ now' = ts[3]
        /\ call' = [op |-> "release_escrow", escrow_id |-> escrow_id, ret |-> r.ret,
                    result |-> r.result, pre_holds |-> holds]
        /\ UNCHANGED <<objectVars, agentVars, serviceVars, sharedVars, reputation_cache>>

CallHandleWebhook ==
    \E payload \in Payloads, signature \in Signatures :
        /\ call' = [op |-> "handle_webhook", payload |-> payload, signature |-> signature,
                    ret |-> handle_webhook(payload, signature), pre_holds |-> holds]
        /\ UNCHANGED <<now, objectVars, agentVars, serviceVars, sharedVars, reputation_cache>>

CallValidatePaymentMethod ==
    \E method \in PaymentMethods :
        /\ call' = [op |-> "validate_payment_method", method |-> method,
                    ret |-> validate_payment_method(config, method), pre_holds |-> holds]
        /\ UNCHANGED <<now, objectVars, agentVars, serviceVars, sharedVars, reputation_cache>>

NextSettlement ==
    \/ CallProcessPayment
    \/ CallCreatePayment
    \/ CallReleaseEscrow
    \/ CallHandleWebhook
    \/ CallValidatePaymentMethod

SpecSettlement == InitSettlement /\ [][NextSettlement]_vars

-----------------------------------------------------------------------------
(* SpecSeller: a SellerAgent (its catalog, its own TrustSystem) answering RFQs *)
(* and counter-offers; it is started at 08:00 or at 09:00 and the clock steps *)
(* by nine hours, so that calls arrive at 08:00, 09:00, 17:00 and 18:00.      *)

SellerStarts == {480, 540}
SellerTickStep == 540
MaxSellerNow == 1080

SellerRFQs == [buyer_id : {BuyerId}, product_id : {"widget", "gadget"},
               quantity : {10, 11, 12, 13}]
SellerDeltaSet == {-200, 49, 50, 79, 80}
SellerCounterOffers == {63, 64, 79, 80, 100}

\* the agent id handle_negotiation draws with Uuid::new_v4(): no known agent's
StrangerId == "stranger"

InitSeller ==
    /\ now \in SellerStarts
    /\ rfq = None
    /\ issued_quote = None
    /\ negotiation = None
    /\ active_negotiations = <<>>
    /\ payments = <<>>
    /\ settles = <<>>
    /\ holds = <<>>
    /\ token = None
    /\ config = {}
    /\ recorded = 0
    /\ tasks = <<>>
    /\ lock = None
    /\ reputation_cache = <<>>
    /\ call = NoCall

TickSeller ==
    /\ now + SellerTickStep <= MaxSellerNow
    /\ now' = now + SellerTickStep
    /\ UNCHANGED <<objectVars, agentVars, serviceVars, sharedVars, reputation_cache, call>>

CallHandleRfq ==
    \E r \in SellerRFQs, quote_id \in {"q1"} :
        LET answer == handle_rfq(reputation_cache, r, quote_id, now) IN
        /\ issued_quote' = answer.quote
        /\ call' = [op |-> "handle_rfq", rfq |-> r, at |-> now,
                    buyer_reputation |-> get_reputation(reputation_cache, r.buyer_id, now),
                    ret |-> answer.ret, quote |-> answer.quote]
        /\ UNCHANGED <<now, rfq, negotiation, agentVars, serviceVars, sharedVars, reputation_cache>>

\* opening_bid is the opening bid of the buyer's negotiation being countered;
\* the request carries the negotiation id and the counter-offer only
CallHandleNegotiation ==
    \E opening_bid \in BidSet, counter_offer \in SellerCounterOffers, quote_id \in {"q2"} :
        LET answer == handle_negotiation(reputation_cache, SellerId, StrangerId,
                                         counter_offer, quote_id, now)
        IN
        /\ issued_quote' = answer.quote
        /\ call' = [op |-> "handle_negotiation", opening_bid |-> opening_bid,
                    counter_offer |-> counter_offer, at |-> now,
                    buyer_reputation |-> get_reputation(reputation_cache, BuyerId, now),
                    ret |-> answer.ret, quote |-> answer.quote]
        /\ UNCHANGED <<now, rfq, negotiation, agentVars, serviceVars, sharedVars, reputation_cache>>

CallUpdateReputationSeller == \E d \in SellerDeltaSet : UpdateReputation(BuyerId, d)

NextSeller ==
    \/ CallHandleRfq
    \/ CallHandleNegotiation
    \/ CallUpdateReputationSeller
    \/ TickSeller

SpecSeller == InitSeller /\ [][NextSeller]_vars

-----------------------------------------------------------------------------
(* SpecToken: tokens issued and validated by one TrustSystem while scores     *)
(* change and the clock steps by 12 hours.  token keeps the last token        *)
(* issued together with what was true at its issuance.                       *)

MaxTokenNow == 2160
TokenTickStep == 720
TokenDeltaSet == {-25, 25, 50}

TickToken ==
    /\ now + TokenTickStep <= MaxTokenNow
    /\ now' = now + TokenTickStep
    /\ UNCHANGED <<objectVars, agentVars, serviceVars, sharedVars, reputation_cache, call>>

CallGenerateJwtToken ==
    \E a \in Agents :
        LET r == generate_jwt(reputation_cache, JwtSecret, a, now) IN
        /\ token' = Some([jwt |-> Unwrap(r.token), agent |-> a, at |-> now,
                          score |-> get_reputation(reputation_cache, a, now),
                          level |-> get_trust_level(reputation_cache, a, now)])
        /\ call' = [op |-> "generate_jwt", agent |-> a, at |-> now, ret |-> r.ret]
        /\ UNCHANGED <<now, objectVars, agentVars, holds, config, sharedVars, reputation_cache>>

\* the token presented is the one issued, or its claims under a signature made
\* with another secret
CallValidateJwt ==
    /\ IsSome(token)
    /\ \E presented \in {Unwrap(token).jwt,
                          encode(Unwrap(token).jwt.claims, "another-secret")} :
          LET r == validate_jwt(JwtSecret, presented, now) IN
          call' = [op |-> "validate_jwt", jwt |-> presented, at |-> now,
                   ret |-> r.ret, claims |-> r.claims]
    /\ UNCHANGED <<now, objectVars, agentVars, serviceVars, sharedVars, reputation_cache>>

CallUpdateReputationToken == \E d \in TokenDeltaSet : UpdateReputation(BuyerId, d)

NextToken ==
    \/ CallGenerateJwtToken
    \/ CallValidateJwt
    \/ CallUpdateReputationToken
    \/ TickToken

SpecToken == InitTrust /\ [][NextToken]_vars

-----------------------------------------------------------------------------
(* SpecRecord: a TrustSystem whose owner records the outcome of transactions  *)
(* (record_successful_transaction, record_failed_transaction) between agents  *)
(* that already hold scores, as time passes.                                   *)

MaxRecorded == 2

RecordAgents == Agents \cup {StrangerId}
RecordScores == {2, 50, 97}

\* the caches earlier update_reputation calls at time 0 left
RecordCaches ==
    UNION {[S -> [score : RecordScores, last_updated : {0},
                  trust_level : {"Untrusted", "Neutral", "Trusted", "HighlyTrusted"}]]
             : S \in SUBSET RecordAgents}

InitRecord ==
    /\ now = 0
    /\ rfq = None
    /\ issued_quote = None
    /\ negotiation = None
    /\ active_negotiations = <<>>
    /\ payments = <<>>
    /\ settles = <<>>
    /\ holds = <<>>
    /\ token = None
    /\ config = {}
    /\ recorded = 0
    /\ tasks = <<>>
    /\ lock = None
    /\ reputation_cache \in RecordCaches
    /\ \A a \in DOMAIN reputation_cache :
          reputation_cache[a].trust_level = TrustLevel_from(reputation_cache[a].score)
    /\ call = NoCall

\* the clock of SpecRecord
TickRecord ==
    /\ now + CacheTtl <= MaxNow
    /\ now' = now + CacheTtl
    /\ UNCHANGED <<objectVars, agentVars, serviceVars, sharedVars, reputation_cache, call>>

\* one call of a transaction hook, r being what it returns and leaves
RecordTransaction(op, buyer_id, seller_id, r) ==
    /\ recorded < MaxRecorded
    /\ recorded' = recorded + 1
    /\ reputation_cache' = r.cache
    /\ call' = [op |-> op, buyer_id |-> buyer_id, seller_id |-> seller_id,
                scores |-> [a \in RecordAgents |-> get_reputation(reputation_cache, a, now)],
                pre |-> reputation_cache, at |-> now, ret |-> r.ret]
    /\ UNCHANGED <<now, objectVars, agentVars, serviceVars, tasks, lock>>

CallRecordSuccessfulTransaction ==
    \E buyer_id \in Agents, seller_id \in Agents, build \in Builds :
       RecordTransaction("record_successful_transaction", buyer_id, seller_id,
          record_successful_transaction(reputation_cache, buyer_id, seller_id, now, build))

CallRecordFailedTransaction ==
    \E buyer_id \in Agents, seller_id \in Agents, build \in Builds :
       RecordTransaction("record_failed_transaction", buyer_id, seller_id,
          record_failed_transaction(reputation_cache, buyer_id, seller_id, now, build))

NextRecord ==
    \/ CallRecordSuccessfulTransaction
    \/ CallRecordFailedTransaction
    \/ TickRecord

SpecRecord == InitRecord /\ [][NextRecord]_vars

-----------------------------------------------------------------------------
(* SpecMcp: the TrustSystem shared by the connection tasks of the MCP server. *)
(* NegotiationMcpServer::run spawns one task per connection (tokio::spawn),    *)
(* every task holds a clone of trust_system : Arc<RwLock<TrustSystem>>, and a  *)
(* tool call reaches the TrustSystem only through that lock: get_reputation    *)
(* under read(), update_reputation under write().  purge_old_cache_entries     *)
(* takes &mut self, which a task can only get from write() (no tool of the     *)
(* server calls it; the purge task is a task that does).  The tasks run on a   *)
(* multi-threaded runtime, so between two steps of one task any other task may *)
(* step.  The calls are in flight together: the clock stands still meanwhile.  *)

Tasks == {"t1", "t2", "t3"}
McpTools == {"get_reputation", "update_reputation", "purge_old_cache_entries"}
McpDeltaSet == {-25, 50, 75}

\* the cache the server starts from, by the time the calls arrive: empty, or
\* written CacheTtl + 15 minutes ago (stale), or 2 * CacheTtl ago (due for purge)
McpNows == {0, CacheTtl + 15, CacheTtl * 2}
McpCache(t) ==
    IF t = 0 THEN <<>>
    ELSE [a \in Agents |-> [score |-> 50, last_updated |-> 0,
                            trust_level |-> TrustLevel_from(50)]]

IdleTask ==
    [pc |-> "idle", tool |-> "none", agent_id |-> BuyerId, score_change |-> 0,
     current_score |-> 0]

InitMcp ==
    /\ now \in McpNows
    /\ rfq = None
    /\ issued_quote = None
    /\ negotiation = None
    /\ active_negotiations = <<>>
    /\ payments = <<>>
    /\ settles = <<>>
    /\ holds = <<>>
    /\ token = None
    /\ config = {}
    /\ recorded = 0
    /\ tasks = [t \in Tasks |-> IdleTask]
    /\ lock = {}
    /\ reputation_cache = McpCache(now)
    /\ call = NoCall

McpUnchanged == <<now, objectVars, agentVars, serviceVars, recorded>>

\* (variant: write() granted whoever holds the lock)
write_lock_not_exclusive(l) == TRUE

\* RwLock::write() is granted when nobody holds the lock
can_write_lock(l) == l = {}

\* RwLock::read() is granted when no writer holds the lock
can_read_lock(l) == \A h \in l : h.mode = "read"

\* a tool call arrives on the connection of task t (handle_tool_call)
ToolCall(t) ==
    /\ tasks[t].pc = "idle"
    /\ \E tool \in McpTools, a \in Agents, d \in McpDeltaSet :
          /\ tool # "update_reputation" => d = 50
          /\ tool = "purge_old_cache_entries" => a = BuyerId
          /\ tasks' = [tasks EXCEPT ![t] = [pc |-> "called", tool |-> tool, agent_id |-> a,
                                           score_change |-> IF tool = "update_reputation"
                                                            THEN d ELSE 0,
                                           current_score |-> 0]]
    /\ UNCHANGED <<McpUnchanged, lock, reputation_cache, call>>

\* trust_system.write().await
AcquireWrite(t) ==
    /\ tasks[t].pc = "called"
    /\ tasks[t].tool \in {"update_reputation", "purge_old_cache_entries"}
    /\ can_write_lock(lock)
    /\ lock' = lock \cup {[task |-> t, mode |-> "write"]}
    /\ tasks' = [tasks EXCEPT ![t].pc = "locked"]
    /\ UNCHANGED <<McpUnchanged, reputation_cache, call>>

\* trust_system.read().await
AcquireRead(t) ==
    /\ tasks[t].pc = "called"
    /\ tasks[t].tool = "get_reputation"
    /\ can_read_lock(lock)
    /\ lock' = lock \cup {[task |-> t, mode |-> "read"]}
    /\ tasks' = [tasks EXCEPT ![t].pc = "locked"]
    /\ UNCHANGED <<McpUnchanged, reputation_cache, call>>

\* self.get_reputation(agent_id).await?, of the tool or of update_reputation
ReadScore(t) ==
    /\ tasks[t].pc = "locked"
    /\ tasks[t].tool \in {"get_reputation", "update_reputation"}
    /\ tasks' = [tasks EXCEPT ![t].pc = "read",
                              ![t].current_score =
                                  get_reputation(reputation_cache, tasks[t].agent_id, now)]
    /\ UNCHANGED <<McpUnchanged, lock, reputation_cache, call>>

\* update_reputation: the new score from the score read, and the insert
WriteScore(t) ==
    /\ tasks[t].pc = "read"
    /\ tasks[t].tool = "update_reputation"
    /\ reputation_cache' = write_reputation(reputation_cache, tasks[t].agent_id,
                                            tasks[t].current_score, tasks[t].score_change, now)
    /\ tasks' = [tasks EXCEPT ![t].pc = "written"]
    /\ UNCHANGED <<McpUnchanged, lock, call>>

\* purge_old_cache_entries under the write lock
PurgeCache(t) ==
    /\ tasks[t].pc = "locked"
    /\ tasks[t].tool = "purge_old_cache_entries"
    /\ reputation_cache' = purge_old_cache_entries(reputation_cache, now)
    /\ tasks' = [tasks EXCEPT ![t].pc = "written"]
    /\ UNCHANGED <<McpUnchanged, lock, call>>

\* the guard is dropped at the end of the arm of handle_tool_call; the call answers
ReleaseLock(t) ==
    /\ \/ tasks[t].pc = "written"
       \/ tasks[t].pc = "read" /\ tasks[t].tool = "get_reputation"
    /\ lock' = {h \in lock : h.task # t}
    /\ tasks' = [tasks EXCEPT ![t].pc = "done"]
    /\ call' = [op |-> tasks[t].tool, task |-> t, agent |-> tasks[t].agent_id,
                score_change |-> tasks[t].score_change,
                score |-> tasks[t].current_score, ret |-> "Ok"]
    /\ UNCHANGED <<McpUnchanged, reputation_cache>>

NextMcp ==
    \E t \in Tasks :
       \/ ToolCall(t)
       \/ AcquireWrite(t)
       \/ AcquireRead(t)
       \/ ReadScore(t)
       \/ WriteScore(t)
       \/ PurgeCache(t)
       \/ ReleaseLock(t)

SpecMcp == InitMcp /\ [][NextMcp]_vars

-----------------------------------------------------------------------------
(* SpecCalls: the methods of one BuyerAgent with their network suspension     *)
(* points.  request_quote, negotiate, accept_quote and reject_quote are async  *)
(* fn(&mut self): the future a call returns holds the exclusive borrow of the  *)
(* agent from the call to its completion, awaits included, so whoever drives   *)
(* the agent (the command loop of bin/buyer_agent.rs, or callers sharing it    *)
(* behind a lock) has one call in progress at a time.  lock holds the borrow;  *)
(* a call is split at its last network await into StartCall and FinishCall.    *)

Callers == {"c1", "c2"}
CallOps == {"request_quote", "negotiate", "accept_quote", "reject_quote"}

IdleCaller ==
    [pc |-> "idle", op |-> "none", id |-> 1, counter_offer |-> 0, seen |-> <<>>]

InitCalls ==
    /\ now = 0
    /\ rfq = None
    /\ issued_quote = None
    /\ negotiation = None
    /\ active_negotiations = <<>>
    /\ payments = <<>>
    /\ settles = <<>>
    /\ holds = <<>>
    /\ token = None
    /\ config = {}
    /\ recorded = 0
    /\ tasks = [t \in Callers |-> IdleCaller]
    /\ lock = {}
    /\ reputation_cache = <<>>
    /\ call = NoCall

\* (variant: the agent handed out as if by shared reference)
borrow_not_exclusive(l) == TRUE

\* &mut self: the agent can be borrowed when no call holds it
can_borrow_mut(l) == l = {}

\* a call that returns before its network await: it answers at once
ReturnEarly(t, op, id, err) ==
    /\ tasks' = [tasks EXCEPT ![t] = [IdleCaller EXCEPT !.pc = "idle"]]
    /\ call' = [op |-> op, id |-> id, task |-> t, ret |-> err]
    /\ UNCHANGED <<now, objectVars, agentVars, serviceVars, recorded, lock, reputation_cache>>

\* a call reaches its network await, having seen the negotiations as they are
Suspend(t, op, id, counter_offer, seen) ==
    /\ tasks' = [tasks EXCEPT ![t] = [pc |-> "awaiting", op |-> op, id |-> id,
                                      counter_offer |-> counter_offer, seen |-> seen]]
    /\ lock' = lock \cup {[task |-> t, mode |-> "write"]}
    /\ UNCHANGED <<now, objectVars, serviceVars, recorded, reputation_cache, call>>

\* a caller calls a method of the agent: the part of it before the await
StartCall(t) ==
    /\ tasks[t].pc = "idle"
    /\ can_borrow_mut(lock)
    /\ \E op \in CallOps, id \in NegIds, counter_offer \in CounterOffers,
          max_price \in AgentBidSet, found \in {"product_not_found", "no_seller", "ok"} :
         LET known == id \in DOMAIN active_negotiations
             r == [buyer_id |-> BuyerId, quantity |-> 1, max_price |-> max_price,
                   deadline |-> now + DefaultTtlHours * 60]
             fresh == Negotiation_new(r, SellerId, now)
         IN
         CASE op = "request_quote" ->
                /\ ~known
                /\ IF found = "product_not_found"
                   THEN ReturnEarly(t, op, id, "ProductNotFound")
                   ELSE IF rfq_validate(r, now) # "Ok"
                        THEN ReturnEarly(t, op, id, rfq_validate(r, now))
                   ELSE IF found = "no_seller" THEN ReturnEarly(t, op, id, "Validation")
                   ELSE /\ active_negotiations' = Insert(active_negotiations, id, fresh)
                        /\ payments' = Insert(payments, id, 0)
                        /\ settles' = Insert(settles, id, 0)
                        /\ Suspend(t, op, id, 0, Insert(active_negotiations, id, fresh))
           [] op = "negotiate" ->
                IF ~known THEN ReturnEarly(t, op, id, "Validation")
                ELSE IF counter_offer_refused(active_negotiations[id], counter_offer)
                     THEN ReturnEarly(t, op, id, "Validation")
                ELSE /\ Suspend(t, op, id, counter_offer, active_negotiations)
                     /\ UNCHANGED agentVars
           [] op \in {"accept_quote", "reject_quote"} ->
                IF ~known THEN ReturnEarly(t, op, id, "Validation")
                ELSE /\ Suspend(t, op, id, 0, active_negotiations)
                     /\ UNCHANGED agentVars

\* the result of the part after the await, on the negotiation n as it is then
AfterAwait(op, n, answer, quote, t) ==
    CASE answer = "agent_lookup_failed" /\ op # "reject_quote" ->
           [ret |-> "AgentNotFound", neg |-> n, paid |-> FALSE]
      [] answer \in {"send_failed", "not_success"} /\ op # "reject_quote" ->
           [ret |-> IF op = "accept_quote" /\ answer = "not_success"
                    THEN "Negotiation" ELSE "Network",
            neg |-> n, paid |-> FALSE]
      [] OTHER ->
           CASE op \in {"request_quote", "negotiate"} ->
                  [ret |-> add_quote(n, quote, t).ret, neg |-> add_quote(n, quote, t).neg,
                   paid |-> FALSE]
             [] op = "reject_quote" ->
                  [ret |-> reject(n, t).ret, neg |-> reject(n, t).neg, paid |-> FALSE]
             [] op = "accept_quote" ->
                  IF ~IsSome(n.quote_id) THEN [ret |-> "Negotiation", neg |-> n, paid |-> FALSE]
                  ELSE IF accept(n, quote.price, t).ret # "Ok"
                       THEN [ret |-> accept(n, quote.price, t).ret, neg |-> n, paid |-> FALSE]
                  ELSE [ret |-> "Ok", neg |-> settle(accept(n, quote.price, t).neg, t).neg,
                        paid |-> TRUE]

\* the network answers and the call runs to its end; the borrow is given back
FinishCall(t) ==
    /\ tasks[t].pc = "awaiting"
    /\ \E answer \in LookupAnswers :
        \E quote \in QuotesFor(answer) :
         LET op == tasks[t].op
             id == tasks[t].id
             r == AfterAwait(op, active_negotiations[id], answer, quote, now)
             c1 == update_reputation(reputation_cache, r.neg.seller_id, 5, now, "release")
             c2 == update_reputation(c1.cache, r.neg.buyer_id, 3, now, "release")
         IN
         /\ active_negotiations' = [active_negotiations EXCEPT ![id] = r.neg]
         /\ payments' = [payments EXCEPT ![id] = IF r.paid THEN @ + 1 ELSE @]
         /\ settles' = [settles EXCEPT ![id] = IF r.paid THEN @ + 1 ELSE @]
         /\ reputation_cache' =
               IF r.paid THEN c2.cache
               ELSE IF op = "reject_quote" /\ r.ret = "Ok"
                    THEN update_reputation(reputation_cache, r.neg.seller_id, -2, now,
                                           "release").cache
               ELSE reputation_cache
         /\ call' = [op |-> op, id |-> id, task |-> t, ret |-> r.ret]
    /\ tasks' = [tasks EXCEPT ![t] = IdleCaller]
    /\ lock' = {h \in lock : h.task # t}
    /\ UNCHANGED <<now, objectVars, serviceVars, recorded>>

NextCalls ==
    \E t \in Callers :
       \/ StartCall(t)
       \/ FinishCall(t)

SpecCalls == InitCalls /\ [][NextCalls]_vars

-----------------------------------------------------------------------------
(* SpecRail: the BuyerAgent of SpecAgent on a payment rail that can fail.  The *)
(* rails of settlement.rs are mocks that always succeed; accept_quote handles  *)
(* the two other answers a rail can give, Err(..) from create_payment (the `?`)*)
(* and a PaymentResult with success == false, and here they occur.             *)

RailAnswers == {"succeeded", "unsuccessful", "error"}

\* BuyerAgent::accept_quote on the negotiation n, the seller answering the lookup
\* of the quote with answer/quote and the rail answering create_payment with rail
accept_quote_on_rail(n, answer, quote, rail, t) ==
    LET failed(err) == [ret |-> err, neg |-> n, dispatched |-> FALSE, paid |-> FALSE]
        accepted == accept(n, quote.price, t)
        settled == settle(accepted.neg, t)
    IN
    IF answer = "agent_lookup_failed" THEN failed("AgentNotFound")
    ELSE IF answer = "send_failed" THEN failed("Network")
    ELSE IF answer = "not_success" THEN failed("Negotiation")
    ELSE IF ~IsSome(n.quote_id) THEN failed("Negotiation")
    ELSE IF accepted.ret # "Ok" THEN failed(accepted.ret)
    ELSE IF rail = "error"
         THEN [ret |-> "Payment", neg |-> accepted.neg, dispatched |-> TRUE, paid |-> FALSE]
    ELSE IF rail = "unsuccessful"
         THEN [ret |-> "Ok", neg |-> accepted.neg, dispatched |-> TRUE, paid |-> FALSE]
    ELSE [ret |-> settled.ret, neg |-> settled.neg, dispatched |-> TRUE,
          paid |-> settled.ret = "Ok"]

\* (variant: the scores are raised as soon as the payment was dispatched)
reputation_due_on_dispatch(r) == r.dispatched

\* if payment_result.success { negotiation.settle()?; .. update_reputation .. }
reputation_due(r) == r.paid

\* BuyerAgent::accept_quote(&mut self, negotiation_id) on such a rail
AcceptQuoteOnRail ==
    \E id \in NegIds, answer \in LookupAnswers, rail \in RailAnswers :
      \E quote \in QuotesFor(answer) :
      IF id \notin DOMAIN active_negotiations THEN Failed("accept_quote", id, "Validation")
      ELSE
        LET r == accept_quote_on_rail(active_negotiations[id], answer, quote, rail, now)
            c1 == update_reputation(reputation_cache, r.neg.seller_id, 5, now, "release")
            c2 == update_reputation(c1.cache, r.neg.buyer_id, 3, now, "release")
        IN
        /\ active_negotiations' = [active_negotiations EXCEPT ![id] = r.neg]
        /\ payments' = [payments EXCEPT ![id] = IF r.dispatched THEN @ + 1 ELSE @]
        /\ settles' = [settles EXCEPT ![id] = IF r.paid THEN @ + 1 ELSE @]
        /\ reputation_cache' = IF reputation_due(r) THEN c2.cache ELSE reputation_cache
        /\ call' = [op |-> "accept_quote", id |-> id, pre |-> active_negotiations,
                    cache |-> reputation_cache,
                    rail |-> IF r.dispatched THEN rail ELSE "none",
                    scores |-> [a \in Agents |-> get_reputation(reputation_cache, a, now)],
                    paid |-> r.paid, ret |-> r.ret]
        /\ UNCHANGED <<now, objectVars, serviceVars, sharedVars>>

NextRail ==
    \/ RequestQuote
    \/ AcceptQuoteOnRail
    \/ RejectQuote
    \/ TickAgent

SpecRail == InitAgent /\ [][NextRail]_vars

-----------------------------------------------------------------------------
(* Claims about the Negotiation object (Spec) *)

Conflict == "Negotiation"

LegalEdges ==
    {<<"Pending", "Quoted">>,
     <<"Quoted", "Accepted">>, <<"Negotiating", "Accepted">>,
     <<"Quoted", "Rejected">>, <<"Negotiating", "Rejected">>,
     <<"Accepted", "Settled">>}

\* C1: under any sequence of add_quote / accept / reject / settle calls the
\* status changes only along Pending->Quoted, Quoted|Negotiating->Accepted,
\* Quoted|Negotiating->Rejected, Accepted->Settled, and an accept called while
\* the status is Pending or Rejected returns the Conflict error, whatever the price.
C1_LegalTransitions ==
    [][ /\ (negotiation'.status # negotiation.status
              => <<negotiation.status, negotiation'.status>> \in LegalEdges)
        /\ (call'.op = "accept" /\ call'.pre.status \in {"Pending", "Rejected"}
              => call'.ret = Conflict) ]_vars

C1_Witness ==
    /\ call.op = "accept"
    /\ call.pre.status = "Rejected"
    /\ call.ret = Conflict
    /\ negotiation.status = "Rejected"

\* C3: once a quote is attached, every later add_quote returns the Conflict
\* error, whatever the second quote holds, and quote_id stays that of the first.
C3_SingleQuote ==
    [][ IsSome(negotiation.quote_id)
          => /\ negotiation'.quote_id = negotiation.quote_id
             /\ (call'.op = "add_quote" /\ call'.pre = negotiation
                   => call'.ret = Conflict) ]_vars

C3_Witness ==
    /\ call.op = "add_quote"
    /\ IsSome(call.pre.quote_id)
    /\ call.quote.id # Unwrap(call.pre.quote_id)
    /\ call.ret = Conflict
    /\ negotiation.quote_id = call.pre.quote_id

\* C4: right after a successful accept(final_price), close_price is
\* final_price and delta is close_price - opening_bid, opening_bid being the
\* max_price of the RFQ the negotiation was built from.
C4_DeltaExact ==
    (call.op = "accept" /\ call.ret = "Ok")
       => /\ negotiation.opening_bid = rfq.max_price
          /\ negotiation.close_price = Some(call.final_price)
          /\ negotiation.delta = Some(call.final_price - rfq.max_price)

C4_Witness ==
    /\ call.op = "accept"
    /\ call.ret = "Ok"
    /\ call.final_price < rfq.max_price
    /\ negotiation.status = "Accepted"

\* C5: close_price and delta are both unset or both set in every state; they
\* become set exactly on the step that moves the status to Accepted, and once
\* set no later call changes them.
C5_ClosedOnce ==
    [][ /\ (IsSome(negotiation.close_price) <=> IsSome(negotiation.delta))
        /\ (IsSome(negotiation'.close_price) <=> IsSome(negotiation'.delta))
        /\ (IsSome(negotiation.close_price)
              => /\ negotiation'.close_price = negotiation.close_price
                 /\ negotiation'.delta = negotiation.delta)
        /\ ((~IsSome(negotiation.close_price) /\ IsSome(negotiation'.close_price))
              <=> (negotiation.status # "Accepted" /\ negotiation'.status = "Accepted")) ]_vars

C5_Witness ==
    /\ call.op = "settle"
    /\ call.ret = "Ok"
    /\ negotiation.status = "Settled"
    /\ IsSome(negotiation.close_price)
    /\ IsSome(negotiation.delta)

-----------------------------------------------------------------------------
(* Claims about the BuyerAgent (SpecAgent) *)

\* C2: for one negotiation id, whatever accept_quote calls are made, the
\* payment is dispatched (create_payment invoked) at most once and settle()
\* returns Ok at most once; settle() on a Settled negotiation returns the
\* illegal-transition error and leaves it as it is.
C2_SettledOnce ==
    \A id \in DOMAIN active_negotiations :
       /\ payments[id] <= 1
       /\ settles[id] <= 1
       /\ settles[id] <= payments[id]
       /\ (active_negotiations[id].status = "Settled"
             => /\ payments[id] = 1
                /\ settle(active_negotiations[id], now).ret = Conflict
                /\ settle(active_negotiations[id], now).neg = active_negotiations[id])

C2_Witness ==
    /\ call.op = "accept_quote"
    /\ call.ret = Conflict
    /\ call.id \in DOMAIN active_negotiations
    /\ active_negotiations[call.id].status = "Settled"
    /\ payments[call.id] = 1
    /\ settles[call.id] = 1

-----------------------------------------------------------------------------
(* Claims about the TrustSystem (SpecTrust, SpecTrustI32, SpecTier) *)

\* C6: after any sequence of update_reputation calls, with any i32 deltas and
\* for any agents, every stored score and every score read is in [0,100].
C6_ScoreInRange ==
    /\ \A a \in DOMAIN reputation_cache :
          reputation_cache[a].score >= 0 /\ reputation_cache[a].score <= 100
    /\ \A a \in Agents :
          get_reputation(reputation_cache, a, now) >= 0
             /\ get_reputation(reputation_cache, a, now) <= 100

C6_Witness ==
    /\ call.op = "update_reputation"
    /\ call.score_change = I32Max
    /\ IsSome(call.pre) /\ Unwrap(call.pre).score > 0 /\ call.at - Unwrap(call.pre).last_updated < CacheTtl
    /\ call.ret = "Ok"
    /\ reputation_cache[call.agent].score = 0
    /\ \E b \in DOMAIN reputation_cache : reputation_cache[b].score = 100

\* C7: update_reputation(a, d) sets a's score to min(100, max(0, s + d)), s
\* being the score a held before the call (0 only for an agent without one),
\* stamps the entry with the time of the call, and get_reputation(a) then
\* returns that score.
C7_UpdateClamps ==
    (call.op = "update_reputation" /\ call.ret = "Ok" /\ call.at = now)
       => LET s == IF IsSome(call.pre) THEN Unwrap(call.pre).score ELSE 0
              expected == Min(100, Max(0, s + call.score_change))
          IN /\ call.agent \in DOMAIN reputation_cache
             /\ reputation_cache[call.agent].score = expected
             /\ reputation_cache[call.agent].last_updated = call.at
             /\ get_reputation(reputation_cache, call.agent, now) = expected

\* C8: the value get_reputation(a) returns changes only on a step that is an
\* update_reputation(a, d) call: not when time passes, not on a purge, not on
\* a token issuance, not on a call for another agent.
C8_OnlyUpdatesChangeScore ==
    [][ \A a \in Agents :
          get_reputation(reputation_cache', a, now') # get_reputation(reputation_cache, a, now)
             => \E d \in DeltaSet : UpdateReputation(a, d) ]_vars

\* the bands of the trust tier as the claim gives them
TierBand(score) ==
    CASE score \in 0..49 -> "Untrusted"
      [] score \in 50..74 -> "Neutral"
      [] score \in 75..89 -> "Trusted"
      [] score \in 90..100 -> "HighlyTrusted"

-----------------------------------------------------------------------------
(* Claims about RFQ::validate (SpecRFQ) *)

\* C10: validate() fails if and only if quantity = 0, or max_price <= 0, or
\* deadline <= now at the time of the call; otherwise it succeeds.
C10_ValidateIff ==
    call.op = "validate"
       => /\ call.ret \in {"Ok", "Validation"}
          /\ (call.ret # "Ok"
                <=> (rfq.quantity = 0 \/ rfq.max_price <= 0 \/ rfq.deadline <= call.at))

C10_Witness ==
    /\ call.op = "validate"
    /\ rfq.quantity > 0
    /\ rfq.max_price > 0
    /\ rfq.deadline = call.at
    /\ call.ret = "Validation"

-----------------------------------------------------------------------------
(* Claims about Quote expiry (SpecQuote) *)

\* C11: is_expired() is true iff the current time is strictly after
\* created_at + ttl_seconds; it is false one second before that instant and false
\* at exactly that instant.
C11_ExpiredIffPastTtl ==
    call.op = "is_expired" =>
        /\ call.ret <=> (call.at > call.quote.created_at + call.quote.ttl_seconds)
        /\ call.at = call.quote.created_at + call.quote.ttl_seconds - 1 => ~call.ret
        /\ call.at = call.quote.created_at + call.quote.ttl_seconds => ~call.ret

\* is_expired asked at exactly created_at + ttl_seconds of a quote with a
\* positive ttl: not expired
C11_Witness ==
    /\ call.op = "is_expired"
    /\ call.quote.ttl_seconds > 0
    /\ call.at = call.quote.created_at + call.quote.ttl_seconds
    /\ ~call.ret

\* C12: a transition attempted with an expired Quote (attaching it, accepting
\* it) fails with the QuoteExpired error and leaves the negotiation as it was.
C12_ExpiredQuoteRefused ==
    (call.op \in {"add_quote", "accept"} /\ is_expired(call.quote, call.at)) =>
        /\ call.ret = "QuoteExpired"
        /\ negotiation = call.pre

-----------------------------------------------------------------------------
(* Claims about the SettlementService (SpecSettlement) *)

\* the rail handler and the payment-id prefix of each payment method
HandlerOf(payment_method) ==
    CASE payment_method = "Stripe" -> [name |-> "process_stripe_payment", prefix |-> "stripe"]
      [] payment_method = "Solana" -> [name |-> "process_solana_payment", prefix |-> "sol"]
      [] payment_method = "Escrow" -> [name |-> "process_escrow_payment", prefix |-> "escrow"]

\* C13: a dispatch on the Escrow rail returns a Pending result without a
\* completion time and creates an Active EscrowHold whose expires_at is its
\* created_at plus its hold duration (7 days).
C13_EscrowPendingWithHold ==
    (call.op = "process_payment" /\ call.request.payment_method = "Escrow") =>
        /\ call.result.status = "Pending"
        /\ call.result.completed_at = None
        /\ call.result.payment_id[2] \in DOMAIN holds
        /\ LET hold == holds[call.result.payment_id[2]] IN
              /\ hold.status = "Active"
              /\ hold.hold_duration_seconds = 7 * 24 * 3600
              /\ hold.expires_at * 60 = hold.created_at * 60 + hold.hold_duration_seconds

\* C14: release_escrow on a hold an Escrow dispatch created moves that hold
\* from Active to Released and returns a Succeeded result carrying the hold's
\* amount and currency.
C14_ReleaseThatHold ==
    (call.op = "release_escrow" /\ call.escrow_id \in DOMAIN call.pre_holds) =>
        /\ call.pre_holds[call.escrow_id].status = "Active"
        /\ holds[call.escrow_id].status = "Released"
        /\ call.ret = "Ok"
        /\ call.result.status = "Succeeded"
        /\ call.result.amount = call.pre_holds[call.escrow_id].amount
        /\ call.result.currency = call.pre_holds[call.escrow_id].currency

\* C15: handle_webhook with a signature that is not the processor's signature
\* of the payload returns an error and leaves the payment state as it was.
C15_ForgedWebhookRefused ==
    (call.op = "handle_webhook" /\ call.signature # Sign(call.payload)) =>
        /\ call.ret # "Ok"
        /\ holds = call.pre_holds

\* C16: process_payment runs exactly the rail handler of the request's payment
\* method; the result carries the request's transaction id, amount and currency
\* with success = true; it is Succeeded with a generated payment id and a
\* completion time on Stripe and Solana, Pending on Escrow.
C16_DispatchByMethod ==
    call.op = "process_payment" =>
        /\ call.ret = "Ok"
        /\ call.handler = HandlerOf(call.request.payment_method).name
        /\ call.result.payment_id[1] = HandlerOf(call.request.payment_method).prefix
        /\ call.result.payment_id[2] \in Uuids
        /\ call.result.transaction_id = call.request.transaction_id
        /\ call.result.amount = call.request.amount
        /\ call.result.currency = call.request.currency
        /\ call.result.success
        /\ call.request.payment_method \in {"Stripe", "Solana"} =>
              call.result.status = "Succeeded" /\ IsSome(call.result.completed_at)
        /\ call.request.payment_method = "Escrow" => call.result.status = "Pending"

\* an Escrow request for 250 EUR was dispatched
C16_Witness ==
    /\ call.op = "process_payment"
    /\ call.request.payment_method = "Escrow"
    /\ call.request.transaction_id = "t2"
    /\ call.result.status = "Pending"
    /\ call.result.amount = 250

-----------------------------------------------------------------------------
(* Claims about the SellerAgent (SpecSeller) *)

\* the catalog entry of a product id, if any
ProductOf(product_id) == {p \in Products : p.id = product_id}

\* C17: handle_rfq returns a Quote only if the product exists, the quantity is
\* within the stock and the buyer's reputation is at least 50; otherwise it returns
\* ProductNotFound, InsufficientStock or InsufficientReputation and no quote.
C17_QuoteOnlyIfEligible ==
    call.op = "handle_rfq" =>
        LET known == ProductOf(call.rfq.product_id) # {}
            in_stock == \A p \in ProductOf(call.rfq.product_id) :
                            call.rfq.quantity <= p.stock_quantity
            reputable == call.buyer_reputation >= 50
        IN
        /\ (call.ret = "Ok") <=> (known /\ in_stock /\ reputable)
        /\ IsSome(call.quote) <=> (call.ret = "Ok")
        /\ ~known => call.ret = "ProductNotFound"
        /\ (known /\ ~in_stock) => call.ret = "InsufficientStock"
        /\ (known /\ in_stock /\ ~reputable) => call.ret = "InsufficientReputation"

\* the product of the applicable factors, in units of 10^-8, taken in the
\* order demand, time, reputation, volume
ApplicableFactors(quantity, buyer_reputation, t) ==
    LET demand == Times(FactorUnit, 101)
        time_based == IF (t \div 60) % 24 \in 9..17 THEN Times(demand, 102) ELSE demand
        reputation == IF buyer_reputation >= 80 THEN Times(time_based, 98) ELSE time_based
    IN  IF quantity > 10 THEN Times(reputation, 95) ELSE reputation

\* C18: the price handle_rfq quotes is unit_price * quantity times the product
\* of the applicable factors (0.95 iff quantity > 10, 0.98 iff reputation >= 80,
\* 1.02 iff the hour is within 9..17, 1.01 always), whatever the order; 12 units
\* of a $100 item at reputation 80 in business hours cost
\* 1200 * 0.95 * 0.98 * 1.02 * 1.01 = 12 * 95.911620.
C18_PriceIsProductOfFactors ==
    (call.op = "handle_rfq" /\ call.ret = "Ok") =>
        LET quoted == Unwrap(call.quote)
            product == CHOOSE p \in ProductOf(call.rfq.product_id) : TRUE
        IN
        /\ quoted.price =
              Ratio(product.base_price * call.rfq.quantity
                      * ApplicableFactors(call.rfq.quantity, call.buyer_reputation, call.at),
                    FactorUnit)
        /\ (call.rfq.quantity = 12 /\ call.buyer_reputation = 80
               /\ (call.at \div 60) % 24 \in 9..17) =>
              quoted.price = Ratio(12 * 95911620, FactorUnit)

\* 12 units quoted at 17:00 to a buyer of reputation 80
C18_Witness ==
    /\ call.op = "handle_rfq"
    /\ call.ret = "Ok"
    /\ call.rfq.quantity = 12
    /\ call.buyer_reputation = 80
    /\ (call.at \div 60) % 24 = 17
    /\ Unwrap(call.quote).price.num = 12 * 95911620

\* C19: the seller validates a counter-offer against the floor opening_bid * 0.8
\* of the negotiation being countered: below the floor it returns an error and
\* no quote, at or above the floor it returns a Quote.
C19_FloorOfCounteredNegotiation ==
    call.op = "handle_negotiation" =>
        IF call.counter_offer * 10 < call.opening_bid * 8
        THEN call.ret # "Ok" /\ call.quote = None
        ELSE call.ret = "Ok" /\ IsSome(call.quote)

-----------------------------------------------------------------------------
(* Claims about trust tokens (SpecToken) *)

\* the tier a trust_level claim names
TierOfClaim(trust_level) ==
    CASE trust_level = "untrusted" -> "Untrusted"
      [] trust_level = "neutral" -> "Neutral"
      [] trust_level = "trusted" -> "Trusted"
      [] trust_level = "highlytrusted" -> "HighlyTrusted"
      [] OTHER -> "unknown"

\* C20: validate_jwt applied within 24 hours of issuance to the token
\* generate_jwt(a) returned succeeds and yields sub = a, the role, and the score
\* and tier a had at issuance, whatever update_reputation did to a since.
C20_TokenRoundTrip ==
    (/\ call.op = "validate_jwt"
     /\ IsSome(token)
     /\ call.jwt = Unwrap(token).jwt
     /\ call.at - Unwrap(token).at <= JwtExpiry) =>
        /\ call.ret = "Ok"
        /\ IsSome(call.claims)
        /\ Unwrap(call.claims).sub = Unwrap(token).agent
        /\ Unwrap(call.claims).role = "agent"
        /\ Unwrap(call.claims).reputation_score = Unwrap(token).score
        /\ TierOfClaim(Unwrap(call.claims).trust_level) = Unwrap(token).level

\* a token issued to the buyer at score 50 validates after update_reputation
\* has taken the buyer's live score to 75
C20_Witness ==
    /\ call.op = "validate_jwt"
    /\ call.ret = "Ok"
    /\ IsSome(token)
    /\ call.jwt = Unwrap(token).jwt
    /\ Unwrap(call.claims).sub = BuyerId
    /\ Unwrap(call.claims).reputation_score = 50
    /\ Unwrap(call.claims).trust_level = "neutral"
    /\ get_reputation(reputation_cache, BuyerId, now) = 75

-----------------------------------------------------------------------------
(* Claims about Negotiation::to_record (Spec) *)

\* C21: to_record() yields a record iff the negotiation has a close price and
\* a delta, that is after a successful accept; the record copies buyer id, seller
\* id, opening_bid, close_price and delta, so that its delta is its close_price
\* minus its opening_bid, and its message_count is the length of messages.
C21_RecordIffClosed ==
    call.op = "to_record" =>
        /\ IsSome(call.ret) <=> (IsSome(call.pre.close_price) /\ IsSome(call.pre.delta))
        /\ IsSome(call.ret) <=> call.pre.status \in {"Accepted", "Settled"}
        /\ negotiation = call.pre
        /\ IsSome(call.ret) =>
              LET record == Unwrap(call.ret) IN
              /\ record.buyer_id = call.pre.buyer_id
              /\ record.seller_id = call.pre.seller_id
              /\ record.opening_bid = call.pre.opening_bid
              /\ Some(record.close_price) = call.pre.close_price
              /\ Some(record.delta) = call.pre.delta
              /\ record.delta = record.close_price - record.opening_bid
              /\ record.message_count = Len(call.pre.messages)

\* a record taken from a negotiation accepted below its opening bid
C21_Witness ==
    /\ call.op = "to_record"
    /\ IsSome(call.ret)
    /\ call.pre.status = "Accepted"
    /\ Unwrap(call.ret).delta < 0
    /\ Unwrap(call.ret).close_price = Unwrap(call.ret).opening_bid + Unwrap(call.ret).delta

\* the negotiations one call of a method of Negotiation leads to from n
NegotiationSteps(n, t) ==
    {add_quote(n, q, t).neg : q \in Quotes}
       \cup {accept(n, p, t).neg : p \in PriceSet}
       \cup {reject(n, t).neg, settle(n, t).neg}

\* the negotiations any sequence of such calls leads to from those of S
RECURSIVE NegotiationsFrom(_, _)
NegotiationsFrom(S, t) ==
    LET T == S \cup UNION {NegotiationSteps(n, t) : n \in S}
    IN IF T = S THEN S ELSE NegotiationsFrom(T, t)

\* some sequence of calls leads from a new negotiation to one of status from,
\* and on from that one to one of status to
ReachableThrough(from, to) ==
    \E n \in NegotiationsFrom({negotiation}, now) :
       /\ n.status = from
       /\ \E m \in NegotiationsFrom({n}, now) : m.status = to

\* C24: from a new negotiation, Rejected and Expired can each be reached by
\* some sequence of calls passing through Quoted and by some sequence passing
\* through Negotiating, and Settled by some sequence passing through Accepted.
C24_TerminalStatesReachable ==
    negotiation.status = "Pending"
       => /\ \A from \in {"Quoted", "Negotiating"}, to \in {"Rejected", "Expired"} :
                ReachableThrough(from, to)
          /\ ReachableThrough("Accepted", "Settled")

\* what of it the code does: Rejected through Quoted, Settled through
\* Accepted, and no negotiation is ever Negotiating or Expired
C24_ReachableStatuses ==
    /\ negotiation.status \notin {"Negotiating", "Expired"}
    /\ negotiation.status = "Pending"
          => /\ ReachableThrough("Quoted", "Rejected")
             /\ ReachableThrough("Accepted", "Settled")
             /\ {n.status : n \in NegotiationsFrom({negotiation}, now)}
                   = {"Pending", "Quoted", "Accepted", "Rejected", "Settled"}

-----------------------------------------------------------------------------
(* Claims about BuyerAgent::negotiate and BuyerAgent::accept_quote (SpecAgent) *)

\* C22: a negotiate call returns Ok only on a negotiation that was Quoted or
\* Negotiating, and then leaves it Negotiating; on a negotiation in any other
\* status it fails and leaves the negotiation as it was.
C22_CounterOnlyWhileOpen ==
    (call.op = "negotiate" /\ IsSome(call.pre))
       => LET before == Unwrap(call.pre)
              after == active_negotiations[call.id]
          IN /\ call.ret = "Ok"
                  => /\ before.status \in {"Quoted", "Negotiating"}
                     /\ after.status = "Negotiating"
             /\ before.status \notin {"Quoted", "Negotiating"}
                  => /\ call.ret # "Ok"
                     /\ after = before

\* C23: negotiate(id, offer) on a known negotiation returns the Validation
\* error whenever offer >= opening_bid, and does not return it (the offer
\* passes the price test) whenever offer < opening_bid.
C23_CounterBelowOpeningBid ==
    (call.op = "negotiate" /\ IsSome(call.pre))
       => LET opening_bid == Unwrap(call.pre).opening_bid
          IN /\ call.counter_offer >= opening_bid => call.ret = "Validation"
             /\ call.counter_offer < opening_bid => call.ret # "Validation"

\* C25: an accept_quote call that got as far as the payment leaves both the
\* buyer's and the seller's score at min(100, s + 5) when the payment
\* succeeded and at max(0, s - 3) when it failed, s being the score read
\* before the call.
C25_AcceptAdjustsBothParties ==
    (call.op = "accept_quote" /\ call.ret = "Ok")
       => \A a \in {active_negotiations[call.id].buyer_id,
                     active_negotiations[call.id].seller_id} :
             get_reputation(reputation_cache, a, now)
                = IF call.paid THEN Min(100, call.scores[a] + 5)
                  ELSE Max(0, call.scores[a] - 3)

-----------------------------------------------------------------------------
(* Claims about the transaction hooks of the TrustSystem (SpecRecord) *)

\* the score the claim gives a party of a recorded transaction
HookScore(op, s) ==
    IF op = "record_successful_transaction" THEN Min(100, s + 5) ELSE Max(0, s - 3)

-----------------------------------------------------------------------------
(* Claims about the shared TrustSystem of the MCP server (SpecMcp) *)

\* the update_reputation calls for agent a that are at one of the positions pcs
UpdatesOf(a, pcs) ==
    {t \in Tasks : /\ tasks[t].tool = "update_reputation"
                   /\ tasks[t].agent_id = a
                   /\ tasks[t].pc \in pcs}

\* the scores that applying the clamped updates of the tasks of T to the
\* score s, one after another, can end at, over every order of the tasks
RECURSIVE SerialScores(_, _)
SerialScores(s, T) ==
    IF T = {} THEN {s}
    ELSE UNION {SerialScores(Min(100, Max(0, s + tasks[t].score_change)), T \ {t}) : t \in T}

\* C27: whenever no update_reputation call for an agent is in flight, the
\* agent's score is what applying the clamped updates of the completed calls
\* for that agent, one after another in some order, gives from the score the
\* agent started with; the calls for other agents play no part in it.
C27_NoLostUpdate ==
    \A a \in Agents :
       UpdatesOf(a, {"called", "locked", "read", "written"}) = {}
          => get_reputation(reputation_cache, a, now)
                \in SerialScores(get_reputation(McpCache(now), a, now), UpdatesOf(a, {"done"}))

\* three calls for one agent, with deltas whose order matters, all completed
C27_Witness ==
    /\ \A t \in Tasks : tasks[t].pc = "done" /\ tasks[t].tool = "update_reputation"
                           /\ tasks[t].agent_id = BuyerId
    /\ {tasks[t].score_change : t \in Tasks} = McpDeltaSet
    /\ call.op = "update_reputation"
    /\ call.score_change = -25
    /\ get_reputation(reputation_cache, BuyerId, now) = 75

\* C28: once an update_reputation call for an agent has inserted its entry,
\* the agent's entry is in the cache, stamped by an update of this run of
\* calls, wherever a purge falls among the steps of the calls; and while a
\* call is between its read and its release no purge holds the lock.
C28_PurgeSparesUpdatedEntry ==
    /\ \A a \in Agents :
          UpdatesOf(a, {"written", "done"}) # {}
             => /\ a \in DOMAIN reputation_cache
                /\ reputation_cache[a].last_updated = now
                /\ \E t \in UpdatesOf(a, {"written", "done"}) :
                      reputation_cache[a].score
                         = Min(100, Max(0, tasks[t].current_score + tasks[t].score_change))
    /\ \A t \in Tasks, p \in Tasks :
          (/\ tasks[t].tool = "update_reputation"
           /\ tasks[t].pc \in {"locked", "read", "written"}
           /\ tasks[p].tool = "purge_old_cache_entries")
             => tasks[p].pc \notin {"locked", "written"}

\* a purge completed after an update of the buyer had completed: it removed
\* the seller's old entry and left the buyer's new one
C28_Witness ==
    /\ now = CacheTtl * 2
    /\ call.op = "purge_old_cache_entries"
    /\ UpdatesOf(BuyerId, {"done"}) # {}
    /\ UpdatesOf(SellerId, {"called", "locked", "read", "written", "done"}) = {}
    /\ SellerId \notin DOMAIN reputation_cache
    /\ BuyerId \in DOMAIN reputation_cache
    /\ reputation_cache[BuyerId].score = 50

-----------------------------------------------------------------------------
(* Claims about the age of cache entries (SpecTrust) *)

\* C29: the score last written for an agent is what get_reputation returns
\* for the agent, however old the entry holding it is: an entry older than
\* the TTL is refreshed, not answered with another value.
C29_StaleEntryRefreshed ==
    \A a \in DOMAIN reputation_cache :
       get_reputation(reputation_cache, a, now) = reputation_cache[a].score

\* C30: purge_old_cache_entries removes exactly the entries whose age
\* (now - last_updated) is at least 2 x TTL, and leaves every younger entry,
\* those older than the TTL included, as it was.
C30_PurgeAtTwiceTtl ==
    call.op = "purge_old_cache_entries"
       => /\ call.ret = "Ok"
          /\ DOMAIN reputation_cache
                = {a \in DOMAIN call.pre : call.at - call.pre[a].last_updated < 2 * 30}
          /\ \A a \in DOMAIN call.pre :
                /\ call.at - call.pre[a].last_updated >= 2 * 30
                      => a \notin DOMAIN reputation_cache
                /\ call.at - call.pre[a].last_updated < 2 * 30
                      => /\ a \in DOMAIN reputation_cache
                         /\ reputation_cache[a] = call.pre[a]

\* a purge that removed an entry aged exactly 2 x TTL and kept one older than
\* the TTL
C30_Witness ==
    /\ call.op = "purge_old_cache_entries"
    /\ \E a \in DOMAIN call.pre :
          /\ call.at - call.pre[a].last_updated = 60
          /\ a \notin DOMAIN reputation_cache
    /\ \E a \in DOMAIN call.pre :
          /\ call.at - call.pre[a].last_updated \in 31..59
          /\ a \in DOMAIN reputation_cache
          /\ reputation_cache[a] = call.pre[a]

-----------------------------------------------------------------------------
(* Claims about the calls in progress on a BuyerAgent (SpecCalls) *)

\* the callers whose call on negotiation id is in progress
InProgressOn(id) == {t \in Callers : tasks[t].pc = "awaiting" /\ tasks[t].id = id}

\* C31: at no time are two of request_quote / negotiate / accept_quote /
\* reject_quote in progress on one negotiation id, their network await
\* included, and while a call awaits the negotiations are as it saw them: the
\* part after the await works on the state the last completed call left.
C31_OneCallAtATime ==
    /\ \A id \in NegIds : Cardinality(InProgressOn(id)) <= 1
    /\ \A t \in Callers :
          tasks[t].pc = "awaiting"
             => /\ lock = {[task |-> t, mode |-> "write"]}
                /\ active_negotiations = tasks[t].seen

\* an accept_quote of one caller awaiting its answer on a negotiation that a
\* call of the other caller has quoted
C31_Witness ==
    /\ \E t \in Callers :
          /\ tasks[t].pc = "awaiting"
          /\ tasks[t].op = "accept_quote"
          /\ call.task # t
          /\ call.op = "request_quote"
          /\ call.ret = "Ok"
          /\ call.id = tasks[t].id
          /\ active_negotiations[tasks[t].id].status = "Quoted"

-----------------------------------------------------------------------------
(* Claims about failed calls of the BuyerAgent (SpecAgent) *)

\* C32: a request_quote call that returns an error leaves the set of active
\* negotiations as it was before the call, and an accept_quote call that
\* returns an error leaves the status, close_price and delta of its
\* negotiation as they were.
C32_FailedCallLeavesNoTrace ==
    /\ (call.op = "request_quote" /\ call.ret # "Ok")
          => active_negotiations = call.pre
    /\ (call.op = "accept_quote" /\ call.ret # "Ok" /\ call.id \in DOMAIN call.pre)
          => /\ active_negotiations[call.id].status = call.pre[call.id].status
             /\ active_negotiations[call.id].close_price = call.pre[call.id].close_price
             /\ active_negotiations[call.id].delta = call.pre[call.id].delta

-----------------------------------------------------------------------------
(* Claims about accept_quote on a failing payment rail (SpecRail) *)

-----------------------------------------------------------------------------
(* Claims about the configuration of the payment rails (SpecSettlement) *)

\* C34: validate_payment_method(rail) returns true exactly when the rail's
\* configuration value is set, and a payment dispatched on a rail whose
\* configuration value is not set does not come back as a successful
\* PaymentResult.
C34_RailNeedsConfiguration ==
    /\ call.op = "validate_payment_method"
          => (call.ret <=> call.method \in config)
    /\ (call.op \in {"process_payment", "create_payment"}
           /\ call.request.payment_method \notin config)
          => ~(call.ret = "Ok" /\ call.result.success)

\* C35: release_escrow returns a Succeeded PaymentResult only for a hold that
\* exists and is Active, and leaves that hold no longer Active; so on an
\* unknown hold id, or on a hold already Released, Refunded or Expired, it
\* does not pay out, and no hold is paid out twice.
C35_HoldPaidOutOnce ==
    (call.op = "release_escrow" /\ call.ret = "Ok" /\ call.result.status = "Succeeded")
       => /\ call.escrow_id \in DOMAIN call.pre_holds
          /\ call.pre_holds[call.escrow_id].status = "Active"
          /\ holds[call.escrow_id].status \in {"Released", "Refunded", "Expired"}

-----------------------------------------------------------------------------
(* Claims about the seller's answer to a counter-offer (SpecSeller) *)

\* C36: the Quote handle_negotiation returns is priced at the counter-offer
\* times 0.95 when the score of the buyer of the countered negotiation is at
\* least 80, times 0.90 when it is at least 60 and below 80, and times 0.85
\* otherwise; it is a fresh Quote with a TTL of 1800 seconds.
C36_CounterScalesWithBuyerTrust ==
    (call.op = "handle_negotiation" /\ call.ret = "Ok")
       => LET hundredths == IF call.buyer_reputation >= 80 THEN 95
                            ELSE IF call.buyer_reputation >= 60 THEN 90
                            ELSE 85
              quote == Unwrap(call.quote)
          IN /\ quote.price = Ratio(call.counter_offer * hundredths, 100)
             /\ quote.ttl_seconds = 1800
             /\ quote.created_at = call.at

-----------------------------------------------------------------------------
(* Claims about refused calls and the attached quote of a Negotiation (Spec) *)

\* C37: an add_quote, accept, reject or settle call that returns an error
\* leaves the Negotiation as it was before the call: status, quote_id,
\* close_price, delta and updated_at, and every other field.
C37_ErrorLeavesNegotiation ==
    (call.op \in {"add_quote", "accept", "reject", "settle"} /\ call.ret # "Ok")
       => /\ negotiation.status = call.pre.status
          /\ negotiation.quote_id = call.pre.quote_id
          /\ negotiation.close_price = call.pre.close_price
          /\ negotiation.delta = call.pre.delta
          /\ negotiation.updated_at = call.pre.updated_at
          /\ negotiation = call.pre

\* a settle refused on a Quoted negotiation, some time after its last change
C37_Witness ==
    /\ call.op = "settle"
    /\ call.ret = "Negotiation"
    /\ call.pre.status = "Quoted"
    /\ now > call.pre.updated_at
    /\ negotiation.updated_at = call.pre.updated_at

\* C38: in every state the methods of Negotiation lead to, quote_id is unset
\* exactly when the status is Pending; and an accept, reject or settle that
\* returns Ok was made on a negotiation with a quote attached.
C38_QuoteUnsetIffPending ==
    /\ ~IsSome(negotiation.quote_id) <=> negotiation.status = "Pending"
    /\ (call.op \in {"accept", "reject", "settle"} /\ call.ret = "Ok")
          => IsSome(call.pre.quote_id)
    /\ ~IsSome(negotiation.quote_id)
          => /\ \A p \in PriceSet : accept(negotiation, p, now).ret # "Ok"
             /\ reject(negotiation, now).ret # "Ok"
             /\ settle(negotiation, now).ret # "Ok"

\* an accept refused on a Pending negotiation, which has no quote, and an
\* accept that succeeded on a negotiation that had one
C38_Witness ==
    /\ call.op = "accept"
    /\ call.ret = "Ok"
    /\ call.pre.status = "Quoted"
    /\ IsSome(call.pre.quote_id)
    /\ negotiation.status = "Accepted"
    /\ IsSome(negotiation.quote_id)

-----------------------------------------------------------------------------
(* Claims about when the BuyerAgent changes reputation (SpecRail) *)

\* C39: an accept_quote call changes the reputation cache only when its
\* payment succeeded and it left the negotiation Settled; a reject_quote call
\* changes it only when it left the negotiation Rejected, and then it is the
\* seller's score alone, lowered by 2 (not below 0); a call of either that
\* returns an error changes no score.
C39_ReputationAfterTransition ==
    call.op \in {"accept_quote", "reject_quote"}
       => LET changed == reputation_cache # call.cache IN
          /\ call.ret # "Ok" => ~changed
          /\ (call.op = "accept_quote" /\ changed)
                => /\ call.ret = "Ok"
                   /\ call.paid
                   /\ call.rail = "succeeded"
                   /\ call.pre[call.id].status # "Settled"
                   /\ active_negotiations[call.id].status = "Settled"
          /\ (call.op = "accept_quote" /\ call.ret = "Ok" /\ ~call.paid) => ~changed
          /\ (call.op = "reject_quote" /\ changed)
                => /\ call.ret = "Ok"
                   /\ call.pre[call.id].status # "Rejected"
                   /\ active_negotiations[call.id].status = "Rejected"
                   /\ LET seller == active_negotiations[call.id].seller_id IN
                      /\ reputation_cache[seller].score = Max(0, call.scores[seller] - 2)
                      /\ \A a \in Agents \ {seller} :
                            /\ a \in DOMAIN reputation_cache <=> a \in DOMAIN call.cache
                            /\ a \in DOMAIN call.cache => reputation_cache[a] = call.cache[a]

\* an accept_quote whose payment came back unsuccessful: it returned Ok, left
\* the negotiation Accepted and raised no score
C39_Witness ==
    /\ call.op = "accept_quote"
    /\ call.id \in DOMAIN call.pre
    /\ call.ret = "Ok"
    /\ call.rail = "unsuccessful"
    /\ ~call.paid
    /\ active_negotiations[call.id].status = "Accepted"
    /\ reputation_cache = call.cache

\* C40: the close price of a negotiation the buyer has accepted, and of every
\* Settled one, is at most its opening bid (the buyer's maximum price): its
\* delta is at most 0.
C40_CloseWithinOpeningBid ==
    \A id \in DOMAIN active_negotiations :
       LET n == active_negotiations[id] IN
       n.status \in {"Accepted", "Settled"}
          => /\ Unwrap(n.close_price) <= n.opening_bid
             /\ Unwrap(n.delta) <= 0

=============================================================================
